---- MODULE Spec2Model ----
(***************************************************************************)
(* Looping modifiers of the uiua interpreter (src/algorithm/loops.rs):     *)
(* reduce, fold, scan, each, rows, table, cross, repeat, group and the     *)
(* helpers they share, over a stack machine whose calls may signal break.  *)
(*                                                                         *)
(* Numbers are exact rationals [n, d] (d = 0: n = 1 is +inf, n = -1 is     *)
(* -inf, n = 0 is NaN).  The inputs are positive integers, so no kernel    *)
(* ever divides by zero and no signed zero arises.                         *)
(* The stack is a sequence whose last element is the top.                  *)
(***************************************************************************)
EXTENDS Integers, Sequences, FiniteSets, TLC

VARIABLES
  stack,    \* the evaluation stack
  log,      \* the calls made so far: the function and the operands it popped
  pc,       \* "ready", "repeat_loop", "ok" (returned Ok), "err" (returned Err)
            \* or "panic" (the thread panicked)
  errmsg,   \* the message of the returned error
  input,    \* the stack the operation started from
  opname,   \* the operation that ran
  loc       \* locals of an operation that is inside its loop

vars == <<stack, log, pc, errmsg, input, opname, loc>>

(* ---------------------------------------------------------------- bounds *)
MaxLen == 3

MaxReps == 3

NumVals == {1, 2, 3}

(* ------------------------------------------------------------- sequences *)
RECURSIVE SeqsUpTo(_, _)
SeqsUpTo(S, n) ==
  IF n = 0 THEN {<<>>}
  ELSE LET P == SeqsUpTo(S, n - 1)
       IN  P \cup {Append(s, x) : s \in {p \in P : Len(p) = n - 1}, x \in S}

SeqsOfLen(S, n) == {s \in SeqsUpTo(S, n) : Len(s) = n}

RECURSIVE Concat(_)
Concat(ss) == IF ss = <<>> THEN <<>> ELSE Head(ss) \o Concat(Tail(ss))

RECURSIVE Product(_)
Product(s) == IF s = <<>> THEN 1 ELSE Head(s) * Product(Tail(s))

Reverse(s) == [i \in 1..Len(s) |-> s[Len(s) + 1 - i]]

Take(s, k) == SubSeq(s, 1, k)

Drop(s, k) == SubSeq(s, k + 1, Len(s))

(* --------------------------------------------------------------- numbers *)
Abs(x) == IF x < 0 THEN -x ELSE x

Sign(x) == IF x < 0 THEN -1 ELSE IF x = 0 THEN 0 ELSE 1

RECURSIVE Gcd(_, _)
Gcd(a, b) == IF b = 0 THEN a ELSE Gcd(b, a % b)

Rat(n, d) ==
  IF d = 0 THEN [n |-> Sign(n), d |-> 0]
  ELSE LET s == IF d < 0 THEN -1 ELSE 1
           g == Gcd(Abs(n), Abs(d))
       IN  [n |-> (s * n) \div g, d |-> (s * d) \div g]

Num(k) == [n |-> k, d |-> 1]

INFINITY == [n |-> 1, d |-> 0]

NEG_INFINITY == [n |-> -1, d |-> 0]

NaN == [n |-> 0, d |-> 0]

IsNaN(a) == a.n = 0 /\ a.d = 0

NumAdd(a, b) ==
  IF IsNaN(a) \/ IsNaN(b) THEN NaN
  ELSE IF a.d = 0 /\ b.d = 0 THEN (IF a.n = b.n THEN a ELSE NaN)
  ELSE IF a.d = 0 THEN a
  ELSE IF b.d = 0 THEN b
  ELSE Rat(a.n * b.d + b.n * a.d, a.d * b.d)

NumNeg(a) == [n |-> -a.n, d |-> a.d]

NumSub(a, b) == NumAdd(a, NumNeg(b))

NumMul(a, b) == Rat(a.n * b.n, a.d * b.d)

NumDiv(a, b) == Rat(a.n * b.d, a.d * b.n)

NumLt(a, b) ==
  IF IsNaN(a) \/ IsNaN(b) THEN FALSE
  ELSE IF a.d = 0 /\ b.d = 0 THEN a.n < b.n
  ELSE a.n * b.d < b.n * a.d

NumEq(a, b) == ~IsNaN(a) /\ ~IsNaN(b) /\ a = b

NumMax(a, b) == IF IsNaN(a) THEN b ELSE IF IsNaN(b) THEN a ELSE IF NumLt(a, b) THEN b ELSE a

NumMin(a, b) == IF IsNaN(a) THEN b ELSE IF IsNaN(b) THEN a ELSE IF NumLt(b, a) THEN b ELSE a

Bool(b) == IF b THEN Num(1) ELSE Num(0)

(* ---------------------------------------------------------------- arrays *)
Arr(ty, shape, data) == [ty |-> ty, shape |-> shape, data |-> data]

Scalar(ty, x) == Arr(ty, <<>>, <<x>>)

rank(v) == Len(v.shape)

flat_len(v) == Product(v.shape)

row_count(v) == IF v.shape = <<>> THEN 1 ELSE v.shape[1]

row_len(v) == IF v.shape = <<>> THEN 1 ELSE Product(Tail(v.shape))

row(v, i) ==
  IF v.shape = <<>> THEN v
  ELSE Arr(v.ty, Tail(v.shape), SubSeq(v.data, (i - 1) * row_len(v) + 1, i * row_len(v)))

into_rows(v) == [i \in 1..row_count(v) |-> row(v, i)]

into_flat_values(v) == [i \in 1..Len(v.data) |-> Scalar(v.ty, v.data[i])]

JoinTy(vals) == IF \A i \in 1..Len(vals) : vals[i].ty = "byte" THEN "byte" ELSE "num"

from_row_values(vals) ==
  IF vals = <<>> THEN [err |-> "", val |-> Arr("num", <<0>>, <<>>)]
  ELSE IF \E i \in 1..Len(vals) : vals[i].shape # vals[1].shape
       THEN [err |-> "Cannot combine arrays with different shapes", val |-> vals[1]]
       ELSE [err |-> "",
             val |-> Arr(JoinTy(vals), <<Len(vals)>> \o vals[1].shape,
                         Concat([i \in 1..Len(vals) |-> vals[i].data]))]

from_row_arrays_infallible(rows) ==
  IF rows = <<>> THEN Arr("num", <<0>>, <<>>)
  ELSE Arr(rows[1].ty, <<Len(rows)>> \o rows[1].shape,
           Concat([i \in 1..Len(rows) |-> rows[i].data]))

convert(v) == Arr("num", v.shape, v.data)

(* ------------------------------------------------------------- functions *)
Fn(name, flipped, brk) == [name |-> name, flipped |-> flipped, inv |-> FALSE, brk |-> brk]

FnVal(fn) == Arr("func", <<>>, <<fn>>)

FnOf(v) == v.data[1]

ReducePrims == {"add", "sub", "mul", "div", "max", "min"}

ComparePrims == {"eq", "ne", "lt", "gt", "le", "ge"}

Prims == ReducePrims \cup ComparePrims \cup {"join", "couple"}

\* The rank lists of two and three entries that the rank-list functions of
\* level's inputs push, by function name.
RankLists ==
  [rank_0_0 |-> <<Num(0), Num(0)>>,
   rank_m1_m1 |-> <<Num(-1), Num(-1)>>,
   rank_inf_inf |-> <<INFINITY, INFINITY>>,
   rank_0_inf |-> <<Num(0), INFINITY>>,
   rank_inf_0 |-> <<INFINITY, Num(0)>>,
   rank_m1_0 |-> <<Num(-1), Num(0)>>,
   rank_0_m1 |-> <<Num(0), Num(-1)>>,
   rank_1_m2 |-> <<Num(1), Num(-2)>>,
   rank_m2_2 |-> <<Num(-2), Num(2)>>,
   rank_1_0 |-> <<Num(1), Num(0)>>,
   rank_0_0_0 |-> <<Num(0), Num(0), Num(0)>>,
   rank_m1_m1_m1 |-> <<Num(-1), Num(-1), Num(-1)>>,
   rank_inf_inf_inf |-> <<INFINITY, INFINITY, INFINITY>>,
   rank_0_inf_0 |-> <<Num(0), INFINITY, Num(0)>>,
   rank_inf_0_m1 |-> <<INFINITY, Num(0), Num(-1)>>,
   rank_m1_0_inf |-> <<Num(-1), Num(0), INFINITY>>,
   rank_1_m2_0 |-> <<Num(1), Num(-2), Num(0)>>,
   rank_0_0_inf |-> <<Num(0), Num(0), INFINITY>>]

signature(fn) ==
  CASE fn.name \in Prims -> [args |-> 2, outputs |-> 1]
    [] fn.name = "lin" -> [args |-> 2, outputs |-> 1]
    [] fn.name = "cat" -> [args |-> 2, outputs |-> 1]
    [] fn.name = "pair" -> [args |-> 2, outputs |-> 1]
    [] fn.name = "inc" -> [args |-> 1, outputs |-> 1]
    [] fn.name = "id" -> [args |-> 1, outputs |-> 1]
    [] fn.name = "dbl" -> [args |-> 1, outputs |-> 1]
    [] fn.name = "solo" -> [args |-> 1, outputs |-> 1]
    [] fn.name = "sum3" -> [args |-> 3, outputs |-> 1]
    [] fn.name = "vec3" -> [args |-> 3, outputs |-> 1]
    [] fn.name = "drop" -> [args |-> 1, outputs |-> 0]
    [] fn.name = "drop2" -> [args |-> 2, outputs |-> 0]
    [] fn.name = "drop3" -> [args |-> 3, outputs |-> 0]
    [] fn.name = "dup" -> [args |-> 1, outputs |-> 2]
    [] fn.name = "swap" -> [args |-> 2, outputs |-> 2]
    [] fn.name \in {"rank_0", "rank_m1", "rank_2", "rank_inf", "rank_none"} ->
         [args |-> 0, outputs |-> 1]
    [] fn.name \in DOMAIN RankLists -> [args |-> 0, outputs |-> 1]
    [] fn.name = "zero" -> [args |-> 0, outputs |-> 1]
    [] OTHER -> [args |-> 0, outputs |-> 0]

as_flipped_primitive(fn) ==
  IF fn.name \in Prims THEN <<[prim |-> fn.name, flipped |-> fn.flipped]>> ELSE <<>>

invert(fn) ==
  IF fn.name = "dbl" THEN [err |-> "", fn |-> [fn EXCEPT !.inv = ~fn.inv]]
  ELSE [err |-> "No inverse found", fn |-> fn]

\* The primitive's scalar kernel: a is the first argument (the top of the
\* stack), b the second.
PrimKernel(p, a, b) ==
  CASE p = "add" -> NumAdd(a, b)
    [] p = "sub" -> NumSub(b, a)
    [] p = "mul" -> NumMul(a, b)
    [] p = "div" -> NumDiv(b, a)
    [] p = "max" -> NumMax(a, b)
    [] p = "min" -> NumMin(a, b)
    [] p = "eq" -> Bool(NumEq(b, a))
    [] p = "ne" -> Bool(~NumEq(b, a))
    [] p = "lt" -> Bool(NumLt(b, a))
    [] p = "gt" -> Bool(NumLt(a, b))
    [] p = "le" -> Bool(NumLt(b, a) \/ NumEq(b, a))
    [] p = "ge" -> Bool(NumLt(a, b) \/ NumEq(b, a))

PrimTy(p, x, y) ==
  IF p \in ComparePrims THEN "byte"
  ELSE IF p = "lin" THEN "num"
  ELSE IF p \in {"max", "min"} /\ x.ty = "byte" /\ y.ty = "byte" THEN "byte"
  ELSE "num"

\* The scalar kernel of a pervasive function: a is the first argument (the
\* top of the stack), b the second.
PervadeKernel(p, a, b) ==
  CASE p \in Prims -> PrimKernel(p, a, b)
    [] p = "lin" -> Rat(2 * a.n * b.d + b.n * a.d, a.d * b.d)

\* Element-wise application with a rank-0 operand repeated.
Pervade(p, ty, x, y) ==
  IF x.shape = y.shape \/ x.shape = <<>> \/ y.shape = <<>>
  THEN [err |-> "",
        out |-> <<Arr(ty, IF x.shape = <<>> THEN y.shape ELSE x.shape,
                      [i \in 1..(IF x.shape = <<>> THEN Len(y.data) ELSE Len(x.data)) |->
                         PervadeKernel(p, x.data[IF x.shape = <<>> THEN 1 ELSE i],
                                       y.data[IF y.shape = <<>> THEN 1 ELSE i])])>>]
  ELSE [err |-> "Shapes do not match", out |-> <<>>]

couple(x, y) ==
  IF x.shape = y.shape
  THEN [err |-> "", out |-> <<Arr(JoinTy(<<x, y>>), <<2>> \o x.shape, x.data \o y.data)>>]
  ELSE [err |-> "Cannot couple arrays with different shapes", out |-> <<>>]

join(x, y) ==
  IF x.shape = <<>> /\ y.shape = <<>> THEN couple(x, y)
  ELSE IF x.shape # <<>> /\ y.shape # <<>> /\ Tail(x.shape) = Tail(y.shape)
  THEN [err |-> "", out |-> <<Arr(JoinTy(<<x, y>>), <<x.shape[1] + y.shape[1]>> \o Tail(x.shape),
                                  x.data \o y.data)>>]
  ELSE [err |-> "Cannot join arrays of these shapes", out |-> <<>>]

\* Calling a recognized primitive with x on top of the stack and y beneath
\* it; a flipped primitive swaps the two first.
CallPrim(p, flipped, x, y) ==
  LET a == IF flipped THEN y ELSE x
      b == IF flipped THEN x ELSE y
  IN  CASE p = "couple" -> couple(a, b)
        [] p = "join" -> join(a, b)
        [] OTHER -> Pervade(p, PrimTy(p, a, b), a, b)

\* What a function does with the operands a it popped (a[1] was on top).
Apply(fn, a) ==
  CASE fn.name \in Prims \cup {"lin"} -> CallPrim(fn.name, fn.flipped, a[1], a[2])
    [] fn.name = "cat" ->
         [err |-> "", out |-> <<Arr("num", <<Len(a[1].data) + Len(a[2].data)>>, a[1].data \o a[2].data)>>]
    [] fn.name = "pair" ->
         IF a[1].shape = a[2].shape
         THEN [err |-> "", out |-> <<Arr(JoinTy(a), <<2>> \o a[1].shape, a[1].data \o a[2].data)>>]
         ELSE [err |-> "Cannot couple arrays with different shapes", out |-> <<>>]
    [] fn.name = "inc" ->
         [err |-> "",
          out |-> <<Arr("num", a[1].shape,
                        [i \in 1..Len(a[1].data) |->
                           [n |-> a[1].data[i].n + a[1].data[i].d, d |-> a[1].data[i].d]])>>]
    [] fn.name = "id" -> [err |-> "", out |-> <<a[1]>>]
    [] fn.name = "solo" -> [err |-> "", out |-> <<Arr(a[1].ty, <<1>> \o a[1].shape, a[1].data)>>]
    [] fn.name = "dbl" ->
         [err |-> "",
          out |-> <<Arr("num", a[1].shape,
                        [i \in 1..Len(a[1].data) |->
                           Rat(IF fn.inv THEN a[1].data[i].n ELSE 2 * a[1].data[i].n,
                               IF fn.inv THEN 2 * a[1].data[i].d ELSE a[1].data[i].d)])>>]
    [] fn.name = "sum3" ->
         IF a[1].shape = a[2].shape /\ a[2].shape = a[3].shape
         THEN [err |-> "",
               out |-> <<Arr("num", a[1].shape,
                             [i \in 1..Len(a[1].data) |->
                                Rat(a[1].data[i].n * a[2].data[i].d * a[3].data[i].d
                                      + 2 * a[2].data[i].n * a[1].data[i].d * a[3].data[i].d
                                      + 4 * a[3].data[i].n * a[1].data[i].d * a[2].data[i].d,
                                    a[1].data[i].d * a[2].data[i].d * a[3].data[i].d)])>>]
         ELSE [err |-> "Shapes do not match", out |-> <<>>]
    [] fn.name = "vec3" ->
         IF a[1].shape = <<>> /\ a[2].shape = <<>> /\ a[3].shape = <<>>
         THEN [err |-> "", out |-> <<Arr("num", <<3>>, <<a[1].data[1], a[2].data[1], a[3].data[1]>>)>>]
         ELSE [err |-> "Expected scalars", out |-> <<>>]
    [] fn.name = "dup" -> [err |-> "", out |-> <<a[1], a[1]>>]
    [] fn.name = "swap" -> [err |-> "", out |-> <<a[1], a[2]>>]
    [] fn.name = "rank_0" -> [err |-> "", out |-> <<Arr("num", <<1>>, <<Num(0)>>)>>]
    [] fn.name = "rank_m1" -> [err |-> "", out |-> <<Arr("num", <<1>>, <<Num(-1)>>)>>]
    [] fn.name = "rank_2" -> [err |-> "", out |-> <<Arr("num", <<1>>, <<Num(2)>>)>>]
    [] fn.name = "rank_inf" -> [err |-> "", out |-> <<Arr("num", <<1>>, <<INFINITY>>)>>]
    [] fn.name = "rank_none" -> [err |-> "", out |-> <<Arr("num", <<0>>, <<>>)>>]
    [] fn.name \in DOMAIN RankLists ->
         [err |-> "", out |-> <<Arr("num", <<Len(RankLists[fn.name])>>, RankLists[fn.name])>>]
    [] fn.name = "zero" -> [err |-> "", out |-> <<Scalar("num", Num(0))>>]
    [] OTHER -> [err |-> "", out |-> <<>>]

(* --------------------------------------------------------- stack machine *)
\* The message of Option::unwrap on None: the operation does not return.
Panic == "called Option::unwrap() on a None value"

Env(stk) == [stack |-> stk, log |-> <<>>, err |-> "", broke |-> FALSE]

Fail(env, msg) == IF env.err # "" THEN env ELSE [env EXCEPT !.err = msg]

push(env, v) == IF env.err # "" THEN env ELSE [env EXCEPT !.stack = Append(@, v)]

Top(env) == IF env.stack = <<>> THEN Arr("num", <<>>, <<NaN>>) ELSE env.stack[Len(env.stack)]

pop(env) ==
  IF env.err # "" THEN env
  ELSE IF env.stack = <<>> THEN Fail(env, "Stack was empty")
  ELSE [env EXCEPT !.stack = Take(@, Len(@) - 1)]

\* Pushes the values of vs in order, so that the last one ends on top.
FoldPush(env, vs) == IF env.err # "" THEN env ELSE [env EXCEPT !.stack = @ \o vs]

\* Pops n values one after the other: vals[1] was on top.
PopN(env, n) ==
  IF env.err # "" THEN [env |-> env, vals |-> <<>>]
  ELSE IF Len(env.stack) < n
  THEN [env |-> Fail([env EXCEPT !.stack = <<>>], "Stack was empty"), vals |-> <<>>]
  ELSE [env |-> [env EXCEPT !.stack = Take(@, Len(@) - n)],
        vals |-> [i \in 1..n |-> env.stack[Len(env.stack) + 1 - i]]]

\* The machine and the function popped from it.
Popped(env) == [env |-> pop(env), f |-> FnOf(Top(env))]

\* The function and the n values popped after it (vals[1] was on top).
PoppedArgs(env, n) ==
  [env |-> PopN(pop(env), n).env, f |-> FnOf(Top(env)), vals |-> PopN(pop(env), n).vals]

stack_size(env) == Len(env.stack)

truncate_stack(env, n) ==
  IF env.err # "" \/ Len(env.stack) <= n THEN env ELSE [env EXCEPT !.stack = Take(@, n)]

\* The operands a call of fn pops: the first was on top.
Operands(env, fn) ==
  [i \in 1..signature(fn).args |-> env.stack[Len(env.stack) + 1 - i]]

\* The machine after fn, called with the operands a, returned r.
Called(env, fn, a, r) ==
  IF r.err # "" THEN Fail([env EXCEPT !.log = Append(@, [fn |-> fn, args |-> a])], r.err)
  ELSE [env EXCEPT !.stack = Take(@, Len(@) - Len(a)) \o r.out,
                   !.log = Append(@, [fn |-> fn, args |-> a]),
                   !.broke = (fn.brk = Len(env.log) + 1)]

\* Calls fn: it pops its operands, pushes its outputs, and signals break
\* when this is the call its break schedule names.
call_catch_break(env, fn) ==
  IF env.err # "" THEN env
  ELSE IF Len(env.stack) < signature(fn).args
  THEN Fail(env, "Stack was empty when evaluating argument")
  ELSE Called(env, fn, Operands(env, fn), Apply(fn, Operands(env, fn)))

\* A call that signalled break becomes the error msg.
BreakIsError(e, msg) == IF e.err = "" /\ e.broke THEN Fail(e, msg) ELSE e

call_error_on_break(env, fn, msg) == BreakIsError(call_catch_break(env, fn), msg)

(* ---------------------------------------------------------------- reduce *)
\* The closures the fast paths are instantiated with, by name: k(a, b), and
\* flip(k)(a, b) = k(b, a).
Kernel(k, a, b) ==
  CASE k = "add" -> NumAdd(a, b)
    [] k = "sub" -> NumSub(a, b)
    [] k = "flip_sub" -> NumSub(b, a)
    [] k = "mul" -> NumMul(a, b)
    [] k = "div" -> NumDiv(a, b)
    [] k = "flip_div" -> NumDiv(b, a)
    [] k = "max" -> NumMax(a, b)
    [] k = "min" -> NumMin(a, b)
    [] k = "eq" -> Bool(NumEq(a, b))
    [] k = "ne" -> Bool(~NumEq(a, b))
    [] k = "lt" -> Bool(NumLt(a, b))
    [] k = "flip_lt" -> Bool(NumLt(b, a))
    [] k = "gt" -> Bool(NumLt(b, a))
    [] k = "flip_gt" -> Bool(NumLt(a, b))
    [] k = "le" -> Bool(NumLt(a, b) \/ NumEq(a, b))
    [] k = "flip_le" -> Bool(NumLt(b, a) \/ NumEq(b, a))
    [] k = "ge" -> Bool(NumLt(b, a) \/ NumEq(a, b))
    [] k = "flip_ge" -> Bool(NumLt(a, b) \/ NumEq(b, a))

\* Iterator::fold: f(... f(f(init, s[1]), s[2]) ..., s[n]).
FoldLeft(k, init, s) ==
  LET acc[i \in 0..Len(s)] == IF i = 0 THEN init ELSE Kernel(k, acc[i - 1], s[i])
  IN  acc[Len(s)]

\* fast_reduce folding from the identity instead of from the first element.
fast_reduce_seeded(arr, identity, k) ==
  CASE rank(arr) = 0 -> Arr("num", <<>>, <<arr.data[1]>>)
    [] rank(arr) = 1 -> Arr("num", <<>>, <<FoldLeft(k, identity, arr.data)>>)
    [] OTHER ->
         Arr("num", Tail(arr.shape),
             [j \in 1..row_len(arr) |->
                FoldLeft(k, identity,
                         [i \in 1..row_count(arr) |-> arr.data[(i - 1) * row_len(arr) + j]])])

fast_reduce(arr, identity, k) ==
  CASE rank(arr) = 0 -> Arr("num", <<>>, <<arr.data[1]>>)
    [] rank(arr) = 1 ->
         Arr("num", <<>>,
             <<IF arr.data # <<>> THEN FoldLeft(k, arr.data[1], Tail(arr.data)) ELSE identity>>)
    [] OTHER ->
         IF row_count(arr) = 0
         THEN Arr("num", Tail(arr.shape), [j \in 1..row_len(arr) |-> identity])
         ELSE Arr("num", Tail(arr.shape),
                  [j \in 1..row_len(arr) |->
                     FoldLeft(k, arr.data[j],
                              [i \in 1..(row_count(arr) - 1) |-> arr.data[i * row_len(arr) + j]])])

\* The match on the primitive with the two subtraction arms exchanged.
fast_reduce_prim_unflipped(prim, flipped, nums) ==
  CASE prim = "add" -> fast_reduce(nums, Num(0), "add")
    [] prim = "sub" /\ flipped -> fast_reduce(nums, Num(0), "flip_sub")
    [] prim = "sub" -> fast_reduce(nums, Num(0), "sub")
    [] prim = "mul" -> fast_reduce(nums, Num(1), "mul")
    [] prim = "div" /\ flipped -> fast_reduce(nums, Num(1), "div")
    [] prim = "div" -> fast_reduce(nums, Num(1), "flip_div")
    [] prim = "max" -> fast_reduce(nums, NEG_INFINITY, "max")
    [] prim = "min" -> fast_reduce(nums, INFINITY, "min")

\* The match on the primitive in reduce: the kernel and identity per
\* primitive, the same for Num and for Byte (whose elements are widened).
fast_reduce_prim(prim, flipped, nums) ==
  CASE prim = "add" -> fast_reduce(nums, Num(0), "add")
    [] prim = "sub" /\ flipped -> fast_reduce(nums, Num(0), "sub")
    [] prim = "sub" -> fast_reduce(nums, Num(0), "flip_sub")
    [] prim = "mul" -> fast_reduce(nums, Num(1), "mul")
    [] prim = "div" /\ flipped -> fast_reduce(nums, Num(1), "div")
    [] prim = "div" -> fast_reduce(nums, Num(1), "flip_div")
    [] prim = "max" -> fast_reduce(nums, NEG_INFINITY, "max")
    [] prim = "min" -> fast_reduce(nums, INFINITY, "min")

RECURSIVE fold1_loop(_, _, _, _)
fold1_loop(f, rows, i, env) ==
  IF env.err # "" \/ i > Len(rows) THEN env
  ELSE LET e1 == call_catch_break(push(env, rows[i]), f)
       IN  IF e1.err # "" THEN e1
           ELSE IF e1.broke
           THEN LET none == signature(f).args = 0
                    e2 == IF none THEN e1 ELSE pop(e1)
                    reduced == IF none THEN <<>> ELSE <<Top(e1)>>
                    val == from_row_values(reduced \o Drop(rows, i))
                IN  IF e2.err # "" THEN e2
                    ELSE IF val.err # "" THEN Fail(e2, val.err)
                    ELSE push(e2, val.val)
           ELSE fold1_loop(f, rows, i + 1, e1)

RECURSIVE fold2_loop(_, _, _, _, _)
\* fold2_loop that at a break pushes the popped result alone, without the
\* rows it did not visit.
fold2_loop_no_rest(f, rows, i, acc, env) ==
  IF env.err # "" THEN env
  ELSE IF i > Len(rows) THEN push(env, acc)
  ELSE LET e1 == call_catch_break(push(push(env, rows[i]), acc), f)
           e2 == pop(e1)
       IN  IF e2.err # "" THEN e2
           ELSE IF e1.broke THEN push(e2, Top(e1))
           ELSE fold2_loop(f, rows, i + 1, Top(e1), e2)

fold2_loop(f, rows, i, acc, env) ==
  IF env.err # "" THEN env
  ELSE IF i > Len(rows) THEN push(env, acc)
  ELSE LET e1 == call_catch_break(push(push(env, rows[i]), acc), f)
           e2 == pop(e1)
       IN  IF e2.err # "" THEN e2
           ELSE IF e1.broke
           THEN LET val == from_row_values(<<Top(e1)>> \o Drop(rows, i))
                IN  IF val.err # "" THEN Fail(e2, val.err) ELSE push(e2, val.val)
           ELSE fold2_loop(f, rows, i + 1, Top(e1), e2)

\* generic_fold whose loop visits the first row again after seeding acc with it.
generic_fold_refold(f, xs, init, env) ==
  CASE signature(f).args \in {0, 1} -> fold1_loop(f, init \o into_rows(xs), 1, env)
    [] signature(f).args = 2 ->
         LET rows == into_rows(xs)
         IN  IF init # <<>> THEN fold2_loop(f, rows, 1, init[1], env)
             ELSE IF rows # <<>> THEN fold2_loop(f, rows, 1, rows[1], env)
             ELSE Fail(env, "Cannot reduce empty array")
    [] OTHER -> Fail(env, "Cannot reduce a function that takes this many arguments")

\* init is <<>> (None) or <<v>> (Some(v)).
generic_fold(f, xs, init, env) ==
  CASE signature(f).args \in {0, 1} -> fold1_loop(f, init \o into_rows(xs), 1, env)
    [] signature(f).args = 2 ->
         LET rows == into_rows(xs)
         IN  IF init # <<>> THEN fold2_loop(f, rows, 1, init[1], env)
             ELSE IF rows # <<>> THEN fold2_loop(f, rows, 2, rows[1], env)
             ELSE Fail(env, "Cannot reduce empty array")
    [] OTHER -> Fail(env, "Cannot reduce a function that takes this many arguments")

\* reduce whose fast path takes the array as one list of its elements.
reduce_flattened(env) ==
  LET f == FnOf(Top(env))
      e1 == pop(env)
      xs == Top(e1)
      e2 == pop(e1)
      p == as_flipped_primitive(f)
  IN  IF e2.err # "" THEN e2
      ELSE IF p # <<>> /\ xs.ty \in {"num", "byte"} /\ p[1].prim \in ReducePrims
      THEN push(e2, fast_reduce_prim(p[1].prim, p[1].flipped,
                                     Arr(xs.ty, <<Len(xs.data)>>, xs.data)))
      ELSE generic_fold(f, xs, <<>>, e2)

reduce(env) ==
  LET f == FnOf(Top(env))
      e1 == pop(env)
      xs == Top(e1)
      e2 == pop(e1)
      p == as_flipped_primitive(f)
  IN  IF e2.err # "" THEN e2
      ELSE IF p # <<>> /\ xs.ty \in {"num", "byte"} /\ p[1].prim \in ReducePrims
      THEN push(e2, fast_reduce_prim(p[1].prim, p[1].flipped, xs))
      ELSE generic_fold(f, xs, <<>>, e2)

fold(env) ==
  LET f == FnOf(Top(env))
      e1 == pop(env)
      acc == Top(e1)
      e2 == pop(e1)
      xs == Top(e2)
      e3 == pop(e2)
  IN  IF e3.err # "" THEN e3 ELSE generic_fold(f, xs, <<acc>>, e3)

(* ------------------------------------------------------------------ scan *)
\* The rows of the scanned array of rank >= 2: the first row's data, then each
\* row combined element-wise with the previous output row.
ScannedRows(arr, k) ==
  LET out[r \in 1..row_count(arr)] ==
        IF r = 1 THEN row(arr, 1).data
        ELSE [i \in 1..row_len(arr) |-> Kernel(k, out[r - 1][i], row(arr, r).data[i])]
  IN  out

\* fast_scan combining each value with the previous input value instead of
\* with the accumulator.
fast_scan_no_acc(arr, k) ==
  CASE rank(arr) = 1 ->
         Arr(arr.ty, arr.shape,
             [i \in 1..Len(arr.data) |->
                IF i = 1 THEN arr.data[1] ELSE Kernel(k, arr.data[i - 1], arr.data[i])])
    [] OTHER ->
         IF row_count(arr) = 0 THEN arr
         ELSE Arr(arr.ty, arr.shape,
                  Concat([r \in 1..row_count(arr) |->
                            IF r = 1 THEN row(arr, 1).data
                            ELSE [i \in 1..row_len(arr) |->
                                    Kernel(k, row(arr, r - 1).data[i], row(arr, r).data[i])]]))

fast_scan(arr, k) ==
  CASE rank(arr) = 1 ->
         IF row_count(arr) = 0 THEN arr
         ELSE Arr(arr.ty, arr.shape,
                  [i \in 1..Len(arr.data) |-> FoldLeft(k, arr.data[1], SubSeq(arr.data, 2, i))])
    [] OTHER ->
         IF row_count(arr) = 0 THEN arr
         ELSE Arr(arr.ty, arr.shape, Concat(ScannedRows(arr, k)))

\* The match on the primitive in scan; bytes is TRUE in the Byte arm, where
\* only max and min keep the elements bytes.
fast_scan_prim(prim, flipped, xs) ==
  LET nums == IF prim \in {"max", "min"} THEN xs ELSE convert(xs)
  IN  CASE prim = "add" -> fast_scan(nums, "add")
        [] prim = "sub" /\ flipped -> fast_scan(nums, "sub")
        [] prim = "sub" -> fast_scan(nums, "flip_sub")
        [] prim = "mul" -> fast_scan(nums, "mul")
        [] prim = "div" /\ flipped -> fast_scan(nums, "div")
        [] prim = "div" -> fast_scan(nums, "flip_div")
        [] prim = "max" -> fast_scan(nums, "max")
        [] prim = "min" -> fast_scan(nums, "min")

first_dim_zero(xs) == Arr(xs.ty, <<0>> \o Tail(xs.shape), <<>>)

RECURSIVE scan_loop(_, _, _, _, _, _)
\* scan_loop that at a break leaves the stack as the breaking call left it.
scan_loop_no_truncate(f, rows, i, acc, scanned, env) ==
  IF env.err # "" THEN env
  ELSE IF i > Len(rows)
  THEN LET val == from_row_values(scanned)
       IN  IF val.err # "" THEN Fail(env, val.err) ELSE push(env, val.val)
  ELSE LET e1 == call_catch_break(push(push(env, rows[i]), acc), f)
           e2 == pop(e1)
       IN  IF e2.err # "" THEN e2
           ELSE IF e1.broke
           THEN LET val == from_row_values(Append(scanned, Top(e1)))
                IN  IF val.err # "" THEN Fail(e2, val.err) ELSE push(e2, val.val)
           ELSE scan_loop(f, rows, i + 1, Top(e1), Append(scanned, Top(e1)), e2)

scan_loop(f, rows, i, acc, scanned, env) ==
  IF env.err # "" THEN env
  ELSE IF i > Len(rows)
  THEN LET val == from_row_values(scanned)
       IN  IF val.err # "" THEN Fail(env, val.err) ELSE push(env, val.val)
  ELSE LET start_height == stack_size(env)
           e1 == call_catch_break(push(push(env, rows[i]), acc), f)
           e2 == pop(e1)
       IN  IF e2.err # "" THEN e2
           ELSE IF e1.broke
           THEN LET val == from_row_values(Append(scanned, Top(e1)))
                    e3 == truncate_stack(e2, start_height)
                IN  IF val.err # "" THEN Fail(e3, val.err) ELSE push(e3, val.val)
           ELSE scan_loop(f, rows, i + 1, Top(e1), Append(scanned, Top(e1)), e2)

generic_scan(f, xs, env) ==
  IF row_count(xs) = 0 THEN push(env, first_dim_zero(xs))
  ELSE LET rows == into_rows(xs)
       IN  scan_loop(f, rows, 2, rows[1], <<rows[1]>>, env)

scan(env) ==
  LET f == FnOf(Top(env))
      e1 == pop(env)
      xs == Top(e1)
      e2 == pop(e1)
      p == as_flipped_primitive(f)
  IN  IF e2.err # "" THEN e2
      ELSE IF rank(xs) = 0 THEN Fail(e2, "Cannot scan rank 0 array")
      ELSE IF p # <<>> /\ xs.ty \in {"num", "byte"} /\ p[1].prim \in ReducePrims
      THEN push(e2, fast_scan_prim(p[1].prim, p[1].flipped, xs))
      ELSE generic_scan(f, xs, e2)

(* ------------------------------------------------------------------ each *)
IsPrefix(a, b) == Len(a) <= Len(b) /\ Take(b, Len(a)) = a

\* The operand pairs bin_pervade_generic visits, in order, and the combined
\* shape: equal shapes pair element-wise, a shape that is a prefix of the
\* other has each of its elements paired with a whole cell of the other.
PervadePairs(xs, ys) ==
  LET xv == into_flat_values(xs)
      yv == into_flat_values(ys)
  IN  IF xs.shape = ys.shape
      THEN [err |-> "", shape |-> xs.shape, pairs |-> [i \in 1..Len(xv) |-> <<xv[i], yv[i]>>]]
      ELSE IF IsPrefix(xs.shape, ys.shape)
      THEN [err |-> "", shape |-> ys.shape,
            pairs |-> [j \in 1..Len(yv) |-> <<xv[((j - 1) \div (Len(yv) \div Len(xv))) + 1], yv[j]>>]]
      ELSE IF IsPrefix(ys.shape, xs.shape)
      THEN [err |-> "", shape |-> xs.shape,
            pairs |-> [j \in 1..Len(xv) |-> <<xv[j], yv[((j - 1) \div (Len(xv) \div Len(yv))) + 1]>>]]
      ELSE [err |-> "Shapes are not compatible", shape |-> <<>>, pairs |-> <<>>]

\* The state of a loop that collects values: the machine and the collected.
Acc(env, vals) == [env |-> env, vals |-> vals]

RECURSIVE each1_1_loop(_, _, _, _)
each1_1_loop(f, old_values, i, a) ==
  IF a.env.err # "" \/ i > Len(old_values) THEN a
  ELSE LET e1 == call_catch_break(push(a.env, old_values[i]), f)
           e2 == pop(e1)
           new_values == Append(a.vals, Top(e1))
       IN  IF e2.err # "" THEN Acc(e2, a.vals)
           ELSE IF e1.broke THEN Acc(e2, new_values \o Drop(old_values, i))
           ELSE each1_1_loop(f, old_values, i + 1, Acc(e2, new_values))

\* Pushes the collected values as one array whose shape is prefix followed by
\* the shape of a collected value.
PushEached(a, prefix) ==
  LET val == from_row_values(a.vals)
  IN  IF a.env.err # "" THEN a.env
      ELSE IF val.err # "" THEN Fail(a.env, val.err)
      ELSE push(a.env, Arr(val.val.ty, prefix \o Tail(val.val.shape), val.val.data))

\* each1_1 that stops collecting at the break and drops the values it did
\* not visit.
each1_1_truncating(f, xs, env) ==
  LET a == each1_1_loop(f, into_flat_values(xs), 1, Acc(env, <<>>))
  IN  PushEached(Acc(a.env, Take(a.vals, Len(a.env.log) - Len(env.log))), xs.shape)

each1_1(f, xs, env) ==
  PushEached(each1_1_loop(f, into_flat_values(xs), 1, Acc(env, <<>>)), xs.shape)

RECURSIVE each1_0_loop(_, _, _, _)
each1_0_loop(f, values, i, env) ==
  IF env.err # "" \/ i > Len(values) THEN env
  ELSE LET e1 == call_catch_break(push(env, values[i]), f)
       IN  IF e1.err # "" \/ e1.broke THEN e1 ELSE each1_0_loop(f, values, i + 1, e1)

each1_0(f, xs, env) == each1_0_loop(f, into_flat_values(xs), 1, env)

\* One call per operand tuple (tuple[1] ends on top), collecting the popped
\* result when the function has an output; a break is an error.
RECURSIVE tuples_loop(_, _, _, _, _, _)
tuples_loop(f, tuples, i, output, msg, a) ==
  IF a.env.err # "" \/ i > Len(tuples) THEN a
  ELSE LET t == tuples[i]
           pushed == FoldPush(a.env, Reverse(t))
           e1 == call_error_on_break(pushed, f, msg)
           e2 == IF output THEN pop(e1) ELSE e1
       IN  IF e2.err # "" THEN Acc(e2, a.vals)
           ELSE tuples_loop(f, tuples, i + 1, output, msg,
                            Acc(e2, IF output THEN Append(a.vals, Top(e1)) ELSE a.vals))

\* each2_1 that pushes the values collected so far when a call fails.
each2_1_partial(f, xs, ys, env) ==
  LET p == PervadePairs(xs, ys)
      a == tuples_loop(f, p.pairs, 1, TRUE, "break is not allowed in multi-argument each",
                       Acc(env, <<>>))
  IN  IF p.err # "" THEN Fail(env, p.err)
      ELSE IF a.env.err # ""
      THEN Fail(PushEached(Acc([a.env EXCEPT !.err = ""], a.vals), <<Len(a.vals)>>), a.env.err)
      ELSE PushEached(a, p.shape)

each2_1(f, xs, ys, env) ==
  LET p == PervadePairs(xs, ys)
  IN  IF p.err # "" THEN Fail(env, p.err)
      ELSE PushEached(tuples_loop(f, p.pairs, 1, TRUE,
                                  "break is not allowed in multi-argument each", Acc(env, <<>>)),
                      p.shape)

each2_0(f, xs, ys, env) ==
  LET p == PervadePairs(xs, ys)
  IN  IF p.err # "" THEN Fail(env, p.err)
      ELSE tuples_loop(f, p.pairs, 1, FALSE,
                       "break is not allowed multi-argument in each", Acc(env, <<>>)).env

ShapesAllMatch(args) == \A i \in 1..(Len(args) - 1) : args[i].shape = args[i + 1].shape

\* The i-th flat value of every argument.
FlatTuples(args) ==
  [i \in 1..flat_len(args[1]) |-> [j \in 1..Len(args) |-> into_flat_values(args[j])[i]]]

eachn_1(f, args, env) ==
  IF ~ShapesAllMatch(args)
  THEN Fail(env, "The shapes in each of 3 or more arrays must all match")
  ELSE LET a == tuples_loop(f, FlatTuples(args), 1, TRUE,
                            "break is not allowed in multi-argument each", Acc(env, <<>>))
           val == from_row_values(a.vals)
       IN  IF a.env.err # "" THEN a.env
           ELSE IF val.err # "" THEN Fail(a.env, val.err)
           ELSE push(a.env, val.val)

eachn_0(f, args, env) ==
  IF ~ShapesAllMatch(args)
  THEN Fail(env, "The shapes in each of 3 or more arrays must all match")
  ELSE tuples_loop(f, FlatTuples(args), 1, FALSE,
                   "break is not allowed in multi-argument each", Acc(env, <<>>)).env

each(env) ==
  LET f == FnOf(Top(env))
      e0 == pop(env)
      sig == signature(f)
      output == sig.outputs = 1
      args == PopN(e0, sig.args)
  IN  IF e0.err # "" THEN e0
      ELSE IF sig.outputs > 1 THEN Fail(e0, "Each's function must return 0 or 1 values")
      ELSE IF sig.args = 0 THEN e0
      ELSE IF args.env.err # "" THEN args.env
      ELSE IF sig.args = 1
      THEN (IF output THEN each1_1(f, args.vals[1], args.env) ELSE each1_0(f, args.vals[1], args.env))
      ELSE IF sig.args = 2
      THEN (IF output THEN each2_1(f, args.vals[1], args.vals[2], args.env)
            ELSE each2_0(f, args.vals[1], args.vals[2], args.env))
      ELSE (IF output THEN eachn_1(f, args.vals, args.env) ELSE eachn_0(f, args.vals, args.env))

(* ------------------------------------------------------------------ rows *)
\* Pushes the collected values reassembled as the rows of one array.
PushRows(a) == PushEached(a, <<Len(a.vals)>>)

rows1_1(f, xs, env) == PushRows(each1_1_loop(f, into_rows(xs), 1, Acc(env, <<>>)))

rows1_0(f, xs, env) == each1_0_loop(f, into_rows(xs), 1, env)

\* The pairs of the zipped rows of xs and ys.
ZipRows(xs, ys) == [i \in 1..row_count(xs) |-> <<row(xs, i), row(ys, i)>>]

rows2_1(f, xs, ys, env) ==
  IF row_count(xs) # row_count(ys)
  THEN Fail(env, "Cannot rows arrays with different number of rows")
  ELSE PushRows(tuples_loop(f, ZipRows(xs, ys), 1, TRUE,
                            "break is not allowed in multi-argument rows", Acc(env, <<>>)))

rows2_0(f, xs, ys, env) ==
  IF row_count(xs) # row_count(ys)
  THEN Fail(env, "Cannot rows arrays with different number of rows")
  ELSE tuples_loop(f, ZipRows(xs, ys), 1, FALSE,
                   "break is not allowed in multi-argument rows", Acc(env, <<>>)).env

\* The smallest row count among the arguments.
RECURSIVE MinRowCount(_)
MinRowCount(args) ==
  IF Len(args) = 1 THEN row_count(args[1])
  ELSE IF row_count(args[1]) < MinRowCount(Tail(args)) THEN row_count(args[1])
  ELSE MinRowCount(Tail(args))

\* The i-th row of every argument, for the iterations in which every
\* argument's row iterator still yields a row.
RowTuples(args) ==
  [i \in 1..MinRowCount(args) |-> [j \in 1..Len(args) |-> row(args[j], i)]]

\* The loop of rowsn_1 and rowsn_0 runs row_count(args[0]) times; next() on
\* an argument with fewer rows yields None, and unwrap() panics.
UnwrapRows(args, a) ==
  IF a.env.err = "" /\ MinRowCount(args) < row_count(args[1])
  THEN Acc(Fail(a.env, Panic), a.vals)
  ELSE a

rowsn_1(f, args, env) ==
  PushRows(UnwrapRows(args, tuples_loop(f, RowTuples(args), 1, TRUE,
                                        "break is not allowed in multi-argument each",
                                        Acc(env, <<>>))))

rowsn_0(f, args, env) ==
  UnwrapRows(args, tuples_loop(f, RowTuples(args), 1, FALSE,
                               "break is not allowed in multi-argument each",
                               Acc(env, <<>>))).env

\* The arms of rows for a function of sig.args >= 1 arguments.
rows_arms(f, output, args, env) ==
  IF env.err # "" THEN env
  ELSE IF Len(args) = 1
  THEN (IF output THEN rows1_1(f, args[1], env) ELSE rows1_0(f, args[1], env))
  ELSE IF Len(args) = 2
  THEN (IF output THEN rows2_1(f, args[1], args[2], env) ELSE rows2_0(f, args[1], args[2], env))
  ELSE (IF output THEN rowsn_1(f, args, env) ELSE rowsn_0(f, args, env))

rows_of(p) ==
  IF p.env.err # "" THEN p.env
  ELSE IF signature(p.f).outputs > 1 THEN Fail(p.env, "Rows's function must return 0 or 1 values")
  ELSE IF signature(p.f).args = 0 THEN p.env
  ELSE rows_arms(p.f, signature(p.f).outputs = 1,
                 PopN(p.env, signature(p.f).args).vals, PopN(p.env, signature(p.f).args).env)

rows(env) == rows_of(Popped(env))

(* ------------------------------------------------------------ distribute *)
\* Each row of xs paired with the whole of y.
WithWhole(xs, y) == [i \in 1..row_count(xs) |-> <<row(xs, i), y>>]

distribute_of(a) ==
  IF a.env.err # "" THEN a.env
  ELSE PushRows(tuples_loop(a.f, WithWhole(a.vals[1], a.vals[2]), 1, TRUE,
                            "break is not allowed in distribute", Acc(a.env, <<>>)))

distribute(env) == distribute_of(PoppedArgs(env, 2))

(* ----------------------------------------------------------------- table *)
\* The closure table passes to fast_table for a primitive ("" when the
\* primitive has none): the arms of table_nums, which the Byte x Byte arms in
\* table repeat.
table_kernel(prim, flipped) ==
  CASE prim \in {"eq", "ne", "add", "mul", "min", "max"} -> prim
    [] prim \in {"lt", "gt", "le", "ge", "sub", "div"} ->
         IF flipped THEN prim
         ELSE CASE prim = "lt" -> "flip_lt"
                [] prim = "gt" -> "flip_gt"
                [] prim = "le" -> "flip_le"
                [] prim = "ge" -> "flip_ge"
                [] prim = "sub" -> "flip_sub"
                [] prim = "div" -> "flip_div"
    [] OTHER -> ""

\* The element type of fast_table's result for two arrays of types tx, ty.
table_ty(prim, tx, ty) ==
  IF prim \in ComparePrims THEN "byte"
  ELSE IF prim \in {"min", "max"} /\ tx = "byte" /\ ty = "byte" THEN "byte"
  ELSE "num"

fast_table(a, b, k, ty) ==
  Arr(ty, a.shape \o b.shape,
      Concat([i \in 1..Len(a.data) |->
                [j \in 1..Len(b.data) |-> Kernel(k, a.data[i], b.data[j])]]))

fast_table_join_or_couple(a, b) ==
  Arr(JoinTy(<<a, b>>), a.shape \o b.shape \o <<2>>,
      Concat([i \in 1..Len(a.data) |->
                Concat([j \in 1..Len(b.data) |-> <<a.data[i], b.data[j]>>])]))

\* All pairs <<x, y>> of an element of xs and one of ys, xs slowest.
AllPairs(xs, ys) ==
  Concat([i \in 1..Len(xs) |-> [j \in 1..Len(ys) |-> <<xs[i], ys[j]>>]])

generic_table(f, xs, ys, env) ==
  PushEached(tuples_loop(f, AllPairs(into_flat_values(xs), into_flat_values(ys)), 1, TRUE,
                         "break is not allowed in table", Acc(env, <<>>)),
             xs.shape \o ys.shape)

table(env) ==
  LET f == FnOf(Top(env))
      a == PopN(pop(env), 2)
      xs == a.vals[1]
      ys == a.vals[2]
      p == as_flipped_primitive(f)
  IN  IF a.env.err # "" THEN a.env
      ELSE IF p # <<>> /\ xs.ty \in {"num", "byte"} /\ ys.ty \in {"num", "byte"}
      THEN (IF p[1].prim \in {"join", "couple"}
            THEN push(a.env, fast_table_join_or_couple(xs, ys))
            ELSE IF table_kernel(p[1].prim, p[1].flipped) # ""
            THEN push(a.env, fast_table(xs, ys, table_kernel(p[1].prim, p[1].flipped),
                                        table_ty(p[1].prim, xs.ty, ys.ty)))
            ELSE generic_table(f, xs, ys, a.env))
      ELSE generic_table(f, xs, ys, a.env)

cross(env) ==
  LET f == FnOf(Top(env))
      a == PopN(pop(env), 2)
      xs == a.vals[1]
      ys == a.vals[2]
  IN  IF a.env.err # "" THEN a.env
      ELSE PushEached(tuples_loop(f, AllPairs(into_rows(xs), into_rows(ys)), 1, TRUE,
                                  "break is not allowed in cross", Acc(a.env, <<>>)),
                      <<row_count(xs), row_count(ys)>>)

(* ----------------------------------------------------------------- group *)
\* Value::as_indices: the integers of a list of integers.
as_indices(v) ==
  IF rank(v) = 1 /\ v.ty \in {"num", "byte"} /\ \A i \in 1..Len(v.data) : v.data[i].d = 1
  THEN [err |-> "", ints |-> [i \in 1..Len(v.data) |-> v.data[i].n]]
  ELSE [err |-> "must be a list of integers", ints |-> <<>>]

RECURSIVE SeqMax(_)
SeqMax(s) ==
  IF Len(s) = 1 THEN s[1]
  ELSE LET m == SeqMax(Tail(s)) IN IF s[1] > m THEN s[1] ELSE m

\* The rows r of xs with indices[r] = g, in increasing r.
RECURSIVE RowsWithIndex(_, _, _, _)
RowsWithIndex(xs, indices, g, r) ==
  IF r > Len(indices) THEN <<>>
  ELSE (IF indices[r] = g THEN <<row(xs, r)>> ELSE <<>>) \o RowsWithIndex(xs, indices, g, r + 1)

group_groups(xs, indices) ==
  IF Len(indices) # row_count(xs)
  THEN [err |-> "Cannot group array with indices of this length", groups |-> <<>>]
  ELSE IF indices = <<>> THEN [err |-> "", groups |-> <<>>]
  ELSE LET max_index == SeqMax(indices)
           n == (IF max_index > 0 THEN max_index ELSE 0) + 1
           groups == [g \in 1..n |-> RowsWithIndex(xs, indices, g - 1, 1)]
       IN  [err |-> "",
            groups |-> [i \in 1..n |-> from_row_arrays_infallible(Reverse(groups)[i])]]

RECURSIVE collapse2_loop(_, _, _, _, _)
\* The arity-2 loop of collapse_groups pushing the group before acc.
collapse2_loop_swapped(f, groups, i, acc, env) ==
  IF env.err # "" THEN env
  ELSE IF i > Len(groups) THEN push(env, acc)
  ELSE LET e1 == call_catch_break(push(push(env, groups[i]), acc), f)
       IN  IF e1.err # "" \/ e1.broke THEN e1
           ELSE collapse2_loop(f, groups, i + 1, Top(e1), pop(e1))

collapse2_loop(f, groups, i, acc, env) ==
  IF env.err # "" THEN env
  ELSE IF i > Len(groups) THEN push(env, acc)
  ELSE LET e1 == call_catch_break(push(push(env, acc), groups[i]), f)
       IN  IF e1.err # "" \/ e1.broke THEN e1
           ELSE collapse2_loop(f, groups, i + 1, Top(e1), pop(e1))

\* The 0 | 1 argument arm of collapse_groups: rows is the results collected
\* in a.vals, and ordered is what rows.reverse() leaves.
collapse_rows(a, ordered) ==
  LET val == from_row_values(ordered)
  IN  IF a.env.err # "" THEN a.env
      ELSE IF val.err # "" THEN Fail(a.env, val.err)
      ELSE push(a.env, val.val)

\* collapse_groups without the rows.reverse() of its 0 | 1 argument arm.
collapse_groups_unreversed(f, groups, name, env) ==
  CASE signature(f).args \in {0, 1} ->
         LET a == tuples_loop(f, [i \in 1..Len(groups) |-> <<groups[i]>>], 1, TRUE,
                              "break is not allowed in " \o name, Acc(env, <<>>))
         IN  collapse_rows(a, a.vals)
    [] signature(f).args = 2 ->
         IF groups = <<>> THEN Fail(env, "Cannot reduce empty " \o name \o " result")
         ELSE collapse2_loop(f, groups, 2, groups[1], env)
    [] OTHER -> Fail(env, "Cannot " \o name \o " with a function that takes this many arguments")

collapse_groups(f, groups, name, env) ==
  CASE signature(f).args \in {0, 1} ->
         LET a == tuples_loop(f, [i \in 1..Len(groups) |-> <<groups[i]>>], 1, TRUE,
                              "break is not allowed in " \o name, Acc(env, <<>>))
         IN  collapse_rows(a, Reverse(a.vals))
    [] signature(f).args = 2 ->
         IF groups = <<>> THEN Fail(env, "Cannot reduce empty " \o name \o " result")
         ELSE collapse2_loop(f, groups, 2, groups[1], env)
    [] OTHER -> Fail(env, "Cannot " \o name \o " with a function that takes this many arguments")

\* group and partition after the function and the index list were popped
\* (a), the list was read (indices) and the values were popped (v), with the
\* groups the values fall into.
collapse_popped(a, indices, v, groups, name, msg) ==
  IF a.env.err # "" THEN a.env
  ELSE IF indices.err # "" THEN Fail(a.env, msg \o indices.err)
  ELSE IF v.err # "" THEN v
  ELSE IF groups.err # "" THEN Fail(v, groups.err)
  ELSE collapse_groups(a.f, groups.groups, name, v)

group(env) ==
  collapse_popped(PoppedArgs(env, 1), as_indices(PoppedArgs(env, 1).vals[1]),
                  pop(PoppedArgs(env, 1).env),
                  group_groups(Top(PoppedArgs(env, 1).env),
                               as_indices(PoppedArgs(env, 1).vals[1]).ints),
                  "group", "Group indices ")

(* ----------------------------------------------------------------- level *)
\* Uiua::call: the call of a function that does not signal break.
call(env, fn) == [call_catch_break(env, fn) EXCEPT !.broke = FALSE]

\* Value::as_number_list with level's test and conversion: a list of
\* integers or infinity; an entry is None (inf) or Some(n).
as_number_list(v) ==
  IF /\ rank(v) = 1
     /\ v.ty \in {"num", "byte"}
     /\ \A i \in 1..Len(v.data) : v.data[i].d = 1 \/ v.data[i] = INFINITY
  THEN [err |-> "",
        list |-> [i \in 1..Len(v.data) |-> [inf |-> v.data[i].d = 0, n |-> v.data[i].n]]]
  ELSE [err |-> "Elements of rank list must be integers or infinity", list |-> <<>>]

\* The descent depth level gives an argument of rank r for the rank-list
\* entry e: r minus the cell rank.
\* level_depth taking a negative entry for the cell rank 0.
level_depth_clamped(e, r) ==
  IF e.inf THEN 0
  ELSE IF e.n < 0 THEN r
  ELSE r - (IF e.n < r THEN e.n ELSE r)

level_depth(e, r) ==
  IF e.inf THEN 0
  ELSE IF e.n < 0 THEN r - (IF r + e.n > 0 THEN r + e.n ELSE 0)
  ELSE r - (IF e.n < r THEN e.n ELSE r)

\* The popped result of the function called on the operands pushed on env.
level_call(e) == Acc(pop(e), <<Top(e)>>)

\* The result of a recursion (r) appended to the collected rows (a).
Collect(a, r) == Acc(r.env, a.vals \o r.vals)

\* The value val, or its error, as what a recursion returns.
Wrapped(env, val) ==
  IF val.err # "" THEN Acc(Fail(env, val.err), <<>>) ELSE Acc(env, <<val.val>>)

\* The collected rows reassembled into the one value a recursion returns.
Reassembled(a) ==
  IF a.env.err # "" THEN Acc(a.env, <<>>) ELSE Wrapped(a.env, from_row_values(a.vals))

RECURSIVE monadic_level_recursive(_, _, _, _)
RECURSIVE monadic_rows(_, _, _, _, _)
monadic_rows(f, rws, i, n, a) ==
  IF a.env.err # "" \/ i > Len(rws) THEN a
  ELSE monadic_rows(f, rws, i + 1, n, Collect(a, monadic_level_recursive(f, rws[i], n, a.env)))

monadic_level_recursive(f, value, n, env) ==
  IF env.err # "" THEN Acc(env, <<>>)
  ELSE IF n = 0 THEN level_call(call(push(env, value), f))
  ELSE Reassembled(monadic_rows(f, into_rows(value), 1, n - 1, Acc(env, <<>>)))

\* Whether the zipped dimensions of two shape prefixes are pairwise equal.
PrefixesAgree(a, b) == \A i \in 1..(IF Len(a) < Len(b) THEN Len(a) ELSE Len(b)) : a[i] = b[i]

\* The row pairs dyadic_level_recursive recurses on: an argument whose depth
\* is 0 is passed whole.
DyadicPairs(xs, ys, xn, yn) ==
  IF xn = 0 THEN [i \in 1..row_count(ys) |-> <<xs, row(ys, i)>>]
  ELSE IF yn = 0 THEN [i \in 1..row_count(xs) |-> <<row(xs, i), ys>>]
  ELSE [i \in 1..(IF row_count(xs) < row_count(ys) THEN row_count(xs) ELSE row_count(ys)) |->
          <<row(xs, i), row(ys, i)>>]

\* usize::saturating_sub(1) of a depth.
Dec(n) == IF n > 0 THEN n - 1 ELSE 0

RECURSIVE dyadic_level_recursive(_, _, _, _, _, _)
RECURSIVE dyadic_rows(_, _, _, _, _, _)
dyadic_rows(f, pairs, i, xn, yn, a) ==
  IF a.env.err # "" \/ i > Len(pairs) THEN a
  ELSE dyadic_rows(f, pairs, i + 1, xn, yn,
                   Collect(a, dyadic_level_recursive(f, pairs[i][1], pairs[i][2], xn, yn, a.env)))

dyadic_level_recursive(f, xs, ys, xn, yn, env) ==
  IF env.err # "" THEN Acc(env, <<>>)
  ELSE IF ~PrefixesAgree(Take(xs.shape, xn), Take(ys.shape, yn))
  THEN Acc(Fail(env, "Cannot level: shape prefixes are not compatible"), <<>>)
  ELSE IF xn = 0 /\ yn = 0 THEN level_call(call(push(push(env, ys), xs), f))
  ELSE Reassembled(dyadic_rows(f, DyadicPairs(xs, ys, xn, yn), 1, Dec(xn), Dec(yn), Acc(env, <<>>)))

\* The key of max_by_key for argument j: 1 when its depth is 0, else the
\* length of its first axis.
LevelKey(args, ns, j) == IF ns[j] = 0 THEN 1 ELSE args[j].shape[1]

\* The argument max_by_key selects: the last one with the greatest key.
MaxKeyIndex(args, ns) ==
  CHOOSE m \in 1..Len(args) :
    /\ \A k \in 1..Len(args) : LevelKey(args, ns, k) <= LevelKey(args, ns, m)
    /\ \A k \in (m + 1)..Len(args) : LevelKey(args, ns, k) < LevelKey(args, ns, m)

\* The arguments of the recursion for row i: a descending argument gives its
\* row i, the others are passed whole.
RowArgs(args, ns, i) == [j \in 1..Len(args) |-> IF ns[j] = 0 THEN args[j] ELSE row(args[j], i)]

RECURSIVE multi_level_recursive(_, _, _, _)
RECURSIVE multi_rows(_, _, _, _, _, _)
multi_rows(f, args, ns, i, count, a) ==
  IF a.env.err # "" \/ i > count THEN a
  ELSE IF \E j \in 1..Len(args) : ns[j] > 0 /\ i > row_count(args[j])
  THEN Acc(Fail(a.env, Panic), a.vals)
  ELSE multi_rows(f, args, ns, i + 1, count,
                  Collect(a, multi_level_recursive(f, RowArgs(args, ns, i),
                                                   [j \in 1..Len(ns) |-> Dec(ns[j])], a.env)))

\* multi_level_recursive once max_by_key has selected argument m.
multi_descend(f, args, ns, m, env) ==
  IF \E j \in 1..Len(args) :
       ~PrefixesAgree(Take(args[j].shape, ns[j]), Take(args[m].shape, ns[m]))
  THEN Acc(Fail(env, "Cannot level with these ranks arrays with these shapes"), <<>>)
  ELSE Reassembled(multi_rows(f, args, ns, 1, IF ns[m] = 0 THEN 1 ELSE args[m].shape[1],
                              Acc(env, <<>>)))

multi_level_recursive(f, args, ns, env) ==
  IF env.err # "" THEN Acc(env, <<>>)
  ELSE IF \A j \in 1..Len(ns) : ns[j] = 0 THEN level_call(call(FoldPush(env, Reverse(args)), f))
  ELSE multi_descend(f, args, ns, MaxKeyIndex(args, ns), env)

\* Pushes the value a recursion returned.
PushLevel(a) == IF a.env.err # "" THEN a.env ELSE push(a.env, a.vals[1])

\* level with the one-entry rank list [n], xs popped.
level1(f, n, xs, env) ==
  IF env.err # "" THEN env
  ELSE IF rank(xs) = 0 THEN push(env, xs)
  ELSE IF ~n.inf /\ n.n = 0 THEN each1_1(f, xs, env)
  ELSE IF ~n.inf /\ n.n = -1 THEN rows1_1(f, xs, env)
  ELSE IF n.inf THEN call(push(env, xs), f)
  ELSE PushLevel(monadic_level_recursive(f, xs, level_depth(n, rank(xs)), env))

\* level with the two-entry rank list [xn, yn], xs and ys popped.
level2(f, xn, yn, xs, ys, env) ==
  IF env.err # "" THEN env
  ELSE IF rank(xs) = 0 /\ rank(ys) = 0 THEN push(push(env, xs), ys)
  ELSE IF ~xn.inf /\ ~yn.inf /\ xn.n = 0 /\ yn.n = 0 THEN each2_1(f, xs, ys, env)
  ELSE IF ~xn.inf /\ ~yn.inf /\ xn.n = -1 /\ yn.n = -1 THEN rows2_1(f, xs, ys, env)
  ELSE IF xn.inf /\ yn.inf THEN call(push(push(env, ys), xs), f)
  ELSE PushLevel(dyadic_level_recursive(f, xs, ys, level_depth(xn, rank(xs)),
                                        level_depth(yn, rank(ys)), env))

\* level with a rank list of three or more entries, the arguments popped.
leveln(f, ns, args, env) ==
  IF env.err # "" THEN env
  ELSE PushLevel(multi_level_recursive(f, args,
                                       [j \in 1..Len(ns) |-> level_depth(ns[j], rank(args[j]))], env))

\* level once the rank list ns is read and f popped.
level_arms(f, ns, env) ==
  IF env.err # "" THEN env
  ELSE IF Len(ns) = 0 THEN env
  ELSE IF Len(ns) = 1 THEN level1(f, ns[1], Top(env), pop(env))
  ELSE IF Len(ns) = 2
  THEN level2(f, ns[1], ns[2], PopN(env, 2).vals[1], PopN(env, 2).vals[2], PopN(env, 2).env)
  ELSE leveln(f, ns, PopN(env, Len(ns)).vals, PopN(env, Len(ns)).env)

\* level once get_ns has run on e: the rank list is popped and read.
level_ranked(e, ns) ==
  IF pop(e).err # "" THEN pop(e)
  ELSE IF ns.err # "" THEN Fail(pop(e), ns.err)
  ELSE level_arms(FnOf(Top(pop(e))), ns.list, pop(pop(e)))

\* level once get_ns has run on e.
level_called(e) == level_ranked(e, as_number_list(Top(e)))

level_of(p) ==
  IF p.env.err # "" THEN p.env
  ELSE level_called(call_error_on_break(p.env, p.f, "break is not allowed in level"))

level(env) == level_of(Popped(env))

(* ------------------------------------------------------------- partition *)
\* isize::MAX; it is only ever compared with markers.
isize_MAX == 2147483647

\* The loop of partition_groups from row r on: groups is the list of groups
\* so far, the last one being the current group.
RECURSIVE partition_loop(_, _, _, _, _)
partition_loop(xs, markers, r, last_marker, groups) ==
  IF r > Len(markers) THEN [err |-> "", groups |-> groups]
  ELSE IF markers[r] > 0
  THEN IF markers[r] # last_marker
       THEN partition_loop(xs, markers, r + 1, markers[r], Append(groups, <<row(xs, r)>>))
       ELSE IF groups = <<>> THEN [err |-> Panic, groups |-> <<>>]
       ELSE partition_loop(xs, markers, r + 1, markers[r],
                           [groups EXCEPT ![Len(groups)] = Append(@, row(xs, r))])
  ELSE partition_loop(xs, markers, r + 1, markers[r], groups)

\* The groups reversed, each reassembled into one array.
ReversedArrays(g) ==
  IF g.err # "" THEN g
  ELSE [err |-> "",
        groups |-> [i \in 1..Len(g.groups) |->
                      from_row_arrays_infallible(g.groups[Len(g.groups) + 1 - i])]]

partition_groups(xs, markers) ==
  IF Len(markers) # row_count(xs)
  THEN [err |-> "Cannot partition array with markers of this length", groups |-> <<>>]
  ELSE ReversedArrays(partition_loop(xs, markers, 1, isize_MAX, <<>>))

partition(env) ==
  collapse_popped(PoppedArgs(env, 1), as_indices(PoppedArgs(env, 1).vals[1]),
                  pop(PoppedArgs(env, 1).env),
                  partition_groups(Top(PoppedArgs(env, 1).env),
                                   as_indices(PoppedArgs(env, 1).vals[1]).ints),
                  "partition", "Partition markers ")

(* ---------------------------------------------------------------- repeat *)
\* Value::as_num: the number of a rank-0 numeric value.
as_num(v, msg) ==
  IF rank(v) = 0 /\ v.ty \in {"num", "byte"} THEN [err |-> "", num |-> v.data[1]]
  ELSE [err |-> msg, num |-> NaN]

\* repeat's set-up that never inverts its function.
repeat_setup_no_invert(f, n) ==
  IF n.d = 0 THEN [err |-> "", f |-> f, left |-> -1]
  ELSE IF n.d # 1
  THEN [err |-> "Repetitions must be a single integer or infinity", f |-> f, left |-> 0]
  ELSE [err |-> "", f |-> f, left |-> Abs(n.n)]

\* The part of repeat before its loop: the function the loop calls and the
\* number of iterations left, -1 for a loop that only a break ends.
repeat_setup(f, n) ==
  LET g == IF n.n < 0 THEN invert(f) ELSE [err |-> "", fn |-> f]
  IN  IF n.d = 0 THEN [err |-> g.err, f |-> g.fn, left |-> -1]
      ELSE IF n.d # 1
      THEN [err |-> "Repetitions must be a single integer or infinity", f |-> f, left |-> 0]
      ELSE [err |-> g.err, f |-> g.fn, left |-> Abs(n.n)]

(* ---------------------------------------------------------------- inputs *)
Marker == Arr("num", <<>>, <<Num(7)>>)

NumsOf(S) == {Num(k) : k \in S}

\* Arrays of rank 0, 1 and 2 over the element values S.
Vectors(ty, S) == {Arr(ty, <<Len(d)>>, d) : d \in SeqsUpTo(NumsOf(S), MaxLen)}

Units(ty, S) == {Arr(ty, <<>>, <<x>>) : x \in NumsOf(S)}

MatrixShapes == {<<0, 2>>, <<1, 2>>, <<2, 1>>, <<2, 2>>, <<MaxLen, 1>>}

Matrices(ty, S) ==
  UNION {{Arr(ty, sh, d) : d \in SeqsOfLen(NumsOf(S), Product(sh))} : sh \in MatrixShapes}

Arrays(ty, S) == Units(ty, S) \cup Vectors(ty, S) \cup Matrices(ty, S)

Nums(s) == Arr("num", <<Len(s)>>, [i \in 1..Len(s) |-> Num(s[i])])

ReduceFns ==
  {Fn(p, fl, 0) : p \in ReducePrims, fl \in BOOLEAN}
    \cup {Fn("lin", FALSE, k) : k \in 0..MaxLen}
    \cup {Fn("eq", FALSE, 0), Fn("inc", FALSE, 0), Fn("sum3", FALSE, 0)}

ReduceArrays ==
  Arrays("num", NumVals) \cup Arrays("byte", NumVals) \cup {Nums(<<10, 1, 2>>), Nums(<<1, 2, 3, 4>>)}

(* ------------------------------------------------------------ operations *)
\* The result of running a whole operation from the current stack.
Return(name, e) ==
  /\ opname' = name
  /\ stack' = e.stack
  /\ log' = e.log
  /\ pc' = IF e.err = "" THEN "ok" ELSE IF e.err = Panic THEN "panic" ELSE "err"
  /\ errmsg' = e.err
  /\ UNCHANGED <<input, loc>>

Start(stacks) ==
  /\ stack \in stacks
  /\ input = stack
  /\ log = <<>>
  /\ pc = "ready"
  /\ errmsg = ""
  /\ opname = ""
  /\ loc = <<>>

Reduce ==
  /\ pc = "ready"
  /\ Return("reduce", reduce(Env(stack)))

InitReduce == Start({<<Marker, xs, FnVal(f)>> : xs \in ReduceArrays, f \in ReduceFns})

NextReduce == Reduce

SpecReduce == InitReduce /\ [][NextReduce]_vars

ScanFns == ReduceFns \cup {Fn("cat", FALSE, 0)}

Scan ==
  /\ pc = "ready"
  /\ Return("scan", scan(Env(stack)))

InitScan == Start({<<Marker, xs, FnVal(f)>> : xs \in ReduceArrays, f \in ScanFns})

NextScan == Scan

SpecScan == InitScan /\ [][NextScan]_vars

\* The array of shape sh holding b + 1, b + 2, ... in flat order.
Iota(ty, sh, b) == Arr(ty, sh, [i \in 1..Product(sh) |-> Num(b + i)])

EachShapes == {<<k>> : k \in 0..MaxLen} \cup {<<>>, <<0, 2>>, <<1, 2>>, <<2, 2>>}

MaxFlat == MaxLen + 1

Each1Fns ==
  {Fn("inc", FALSE, k) : k \in 0..MaxFlat} \cup {Fn("drop", FALSE, k) : k \in 0..2}
    \cup {Fn("id", FALSE, 2), Fn("solo", FALSE, 0), Fn("dup", FALSE, 0)}

Each2Fns ==
  {Fn("lin", FALSE, 0), Fn("lin", FALSE, 2), Fn("pair", FALSE, 0), Fn("drop2", FALSE, 0),
   Fn("drop2", FALSE, 2)}

Each3Fns ==
  {Fn("sum3", FALSE, 0), Fn("sum3", FALSE, 2), Fn("vec3", FALSE, 0), Fn("drop3", FALSE, 0),
   Fn("drop3", FALSE, 2)}

EachStacks ==
  {<<Marker, Iota(ty, sh, 0), FnVal(f)>> : ty \in {"num", "byte"}, sh \in EachShapes, f \in Each1Fns}
    \cup {<<Marker, Iota("num", sy, 10), Iota("num", sx, 0), FnVal(f)>> :
             sx \in EachShapes, sy \in EachShapes, f \in Each2Fns}
    \cup {<<Marker, Iota("num", sz, 20), Iota("num", sy, 10), Iota("num", sx, 0), FnVal(f)>> :
             sx \in EachShapes, sy \in EachShapes, sz \in EachShapes, f \in Each3Fns}
    \cup {<<Marker, FnVal(Fn("zero", FALSE, 0))>>, <<Marker, FnVal(Fn("nop", FALSE, 0))>>}

Each ==
  /\ pc = "ready"
  /\ Return("each", each(Env(stack)))

InitEach == Start(EachStacks)

NextEach == Each

SpecEach == InitEach /\ [][NextEach]_vars

TableShapes == {<<>>, <<0>>, <<2>>, <<MaxLen>>, <<2, 2>>}

TableFns ==
  {Fn(p, fl, 0) : p \in Prims, fl \in BOOLEAN}
    \cup {Fn("lin", FALSE, 0), Fn("lin", FALSE, 2), Fn("pair", FALSE, 0), Fn("cat", FALSE, 0)}

TableStacks ==
  {<<Marker, Iota(ty, sy, 1), Iota(tx, sx, 0), FnVal(f)>> :
     tx \in {"num", "byte"}, ty \in {"num", "byte"}, sx \in TableShapes, sy \in TableShapes,
     f \in TableFns}
    \cup {<<Marker, ex[2], ex[1], FnVal(Fn(ex[3], FALSE, 0))>> :
             ex \in {<<Nums(<<1, 2>>), Nums(<<10, 20, 30>>), "add">>,
                      <<Nums(<<1, 2>>), Nums(<<3, 4>>), "couple">>}}

Table ==
  /\ pc = "ready"
  /\ Return("table", table(Env(stack)))

Cross ==
  /\ pc = "ready"
  /\ Return("cross", cross(Env(stack)))

InitTable == Start(TableStacks)

NextTable == Table \/ Cross

SpecTable == InitTable /\ [][NextTable]_vars

IndexVals == (-1)..(MaxLen - 1)

IndexLists == {Arr("num", <<Len(d)>>, d) : d \in SeqsUpTo(NumsOf(IndexVals), MaxLen)}

GroupFns ==
  {Fn("id", FALSE, 0), Fn("id", FALSE, 1), Fn("inc", FALSE, 0), Fn("zero", FALSE, 0),
   Fn("lin", FALSE, 0), Fn("cat", FALSE, 0), Fn("cat", FALSE, 1), Fn("cat", FALSE, 2),
   Fn("sum3", FALSE, 0)}

GroupValues ==
  {Iota("num", <<k>>, 0) : k \in 0..MaxLen} \cup {Iota("num", <<k, 2>>, 0) : k \in 1..MaxLen}

GroupStacks ==
  {<<Marker, xs, is, FnVal(f)>> : xs \in GroupValues, is \in IndexLists, f \in GroupFns}
    \cup {<<Marker, Iota("num", <<2>>, 0), Arr("num", <<2>>, <<Num(0), Rat(1, 2)>>),
            FnVal(Fn("id", FALSE, 0))>>}

Group ==
  /\ pc = "ready"
  /\ Return("group", group(Env(stack)))

InitGroup == Start(GroupStacks)

NextGroup == Group

SpecGroup == InitGroup /\ [][NextGroup]_vars

MaxCalls == MaxReps + 2

RepeatCounts ==
  {Scalar("num", Num(k)) : k \in (-MaxReps)..MaxReps}
    \cup {Scalar("num", INFINITY), Scalar("num", NEG_INFINITY), Scalar("num", Rat(1, 2)),
           Nums(<<1, 2>>)}

RepeatFns ==
  {Fn("dbl", FALSE, k) : k \in 0..MaxCalls}
    \cup {Fn("inc", FALSE, 0), Fn("inc", FALSE, 1), Fn("zero", FALSE, 0), Fn("drop", FALSE, 0)}

RepeatStacks ==
  {<<Marker, Scalar("num", Num(x)), n, FnVal(f)>> : x \in NumVals, n \in RepeatCounts, f \in RepeatFns}

\* repeat up to its loop: pops f and n, rejects a count that is no integer
\* or infinity, inverts f for a negative count.
RepeatBegin ==
  /\ pc = "ready"
  /\ LET e0 == Env(stack)
         f == FnOf(Top(e0))
         e2 == pop(pop(e0))
         n == as_num(Top(pop(e0)), "Repetitions must be a single integer or infinity")
         su == repeat_setup(f, n.num)
         err == IF e2.err # "" THEN e2.err ELSE IF n.err # "" THEN n.err ELSE su.err
     IN  /\ stack' = e2.stack
         /\ pc' = IF err # "" THEN "err" ELSE "repeat_loop"
         /\ errmsg' = err
         /\ loc' = IF err # "" THEN <<>> ELSE <<[f |-> su.f, left |-> su.left]>>
  /\ opname' = "repeat"
  /\ UNCHANGED <<log, input>>

\* An iteration of repeat that goes on after a call that signalled break.
RepeatCall_past_break ==
  /\ pc = "repeat_loop"
  /\ loc[1].left # 0
  /\ Len(log) < MaxCalls
  /\ LET e == call_catch_break([Env(stack) EXCEPT !.log = log], loc[1].f)
     IN  /\ stack' = e.stack
         /\ log' = e.log
         /\ errmsg' = e.err
         /\ pc' = IF e.err # "" THEN "err" ELSE "repeat_loop"
         /\ loc' = IF e.err # "" THEN <<>>
                   ELSE <<[loc[1] EXCEPT !.left = IF @ > 0 THEN @ - 1 ELSE @]>>
  /\ UNCHANGED <<input, opname>>

\* One iteration of either loop of repeat.
RepeatCall ==
  /\ pc = "repeat_loop"
  /\ loc[1].left # 0
  /\ Len(log) < MaxCalls
  /\ LET e == call_catch_break([Env(stack) EXCEPT !.log = log], loc[1].f)
     IN  /\ stack' = e.stack
         /\ log' = e.log
         /\ errmsg' = e.err
         /\ pc' = IF e.err # "" THEN "err" ELSE IF e.broke THEN "ok" ELSE "repeat_loop"
         /\ loc' = IF e.err # "" \/ e.broke THEN <<>>
                   ELSE <<[loc[1] EXCEPT !.left = IF @ > 0 THEN @ - 1 ELSE @]>>
  /\ UNCHANGED <<input, opname>>

\* The counted loop of repeat has run out.
RepeatEnd ==
  /\ pc = "repeat_loop"
  /\ loc[1].left = 0
  /\ pc' = "ok"
  /\ loc' = <<>>
  /\ UNCHANGED <<stack, log, errmsg, input, opname>>

InitRepeat == Start(RepeatStacks)

NextRepeat == RepeatBegin \/ RepeatCall \/ RepeatEnd

SpecRepeat == InitRepeat /\ [][NextRepeat]_vars

\* repeat is sequential code: as long as it has a next step it takes it.
SpecRepeatFair == SpecRepeat /\ WF_vars(NextRepeat)

LevelShapes == {<<>>, <<0>>, <<2>>, <<MaxLen>>, <<0, 2>>, <<1, 2>>, <<2, 2>>}

RankFns ==
  {Fn(r, FALSE, 0) : r \in {"rank_0", "rank_m1", "rank_2", "rank_inf", "rank_none"}}
    \cup {Fn("rank_0", FALSE, 1)}

\* A function with a break schedule is only paired with the rank lists that
\* lead to call_catch_break.
LevelFns(r) ==
  {Fn("inc", FALSE, 0), Fn("id", FALSE, 0), Fn("solo", FALSE, 0), Fn("drop", FALSE, 0),
   Fn("lin", FALSE, 0), Fn("zero", FALSE, 0), Fn("dup", FALSE, 0)}
    \cup (IF r.name \in {"rank_0", "rank_m1"}
          THEN {Fn("inc", FALSE, 1), Fn("inc", FALSE, 2), Fn("drop", FALSE, 1)}
          ELSE {})

LevelStacks ==
  UNION {{<<Marker, Iota(ty, sh, 0), FnVal(f), FnVal(r)>> :
            ty \in {"num", "byte"}, sh \in LevelShapes, f \in LevelFns(r)} : r \in RankFns}

Level ==
  /\ pc = "ready"
  /\ Return("level", level(Env(stack)))

InitLevel == Start(LevelStacks)

NextLevel == Level

SpecLevel == InitLevel /\ [][NextLevel]_vars

Level2Fns == {Fn("pair", FALSE, 0), Fn("cat", FALSE, 0), Fn("lin", FALSE, 0)}

Level3Fns == {Fn("sum3", FALSE, 0), Fn("vec3", FALSE, 0)}

Level3Shapes == {<<>>, <<0>>, <<1>>, <<2>>, <<0, 2>>, <<2, 2>>}

\* level on two arguments under a two-entry rank list: xs is on top of ys.
Level2Stacks ==
  {<<Marker, Iota("num", ysh, 10), Iota("num", xsh, 0), FnVal(f), FnVal(Fn(r, FALSE, 0))>> :
     xsh \in LevelShapes, ysh \in LevelShapes, f \in Level2Fns,
     r \in {n \in DOMAIN RankLists : Len(RankLists[n]) = 2}}

\* level on three arguments under a three-entry rank list.
Level3Stacks ==
  {<<Marker, Iota("num", sh[3], 20), Iota("num", sh[2], 10), Iota("num", sh[1], 0),
     FnVal(f), FnVal(Fn(r, FALSE, 0))>> :
     sh \in Level3Shapes \X Level3Shapes \X Level3Shapes, f \in Level3Fns,
     r \in {n \in DOMAIN RankLists : Len(RankLists[n]) = 3}}

InitLevelArgs == Start(LevelStacks \cup Level2Stacks \cup Level3Stacks)

\* level on one, two and three arguments.
SpecLevelArgs == InitLevelArgs /\ [][NextLevel]_vars

\* Inputs every combinator can run from: a function on top of three arrays.
LoopShapes == {<<>>, <<0>>, <<2>>, <<2, 2>>}

LoopFns ==
  {Fn("add", FALSE, 0), Fn("inc", FALSE, 0), Fn("inc", FALSE, 1), Fn("drop", FALSE, 0),
   Fn("lin", FALSE, 0), Fn("lin", FALSE, 1), Fn("lin", FALSE, 2), Fn("drop2", FALSE, 0),
   Fn("drop2", FALSE, 1),
   Fn("zero", FALSE, 0), Fn("zero", FALSE, 1), Fn("sum3", FALSE, 0), Fn("cat", FALSE, 0)}

LoopStacks ==
  {<<Marker, Iota("num", <<2>>, 20), Iota("num", sy, 10), Iota("num", sx, 0), FnVal(f)>> :
     sx \in LoopShapes, sy \in LoopShapes, f \in LoopFns}
    \cup {<<Marker, Iota("num", <<2>>, 20), Iota("num", <<>>, 10), Scalar("num", Rat(1, 2)),
            FnVal(Fn("inc", FALSE, 0))>>}

Fold ==
  /\ pc = "ready"
  /\ Return("fold", fold(Env(stack)))

Rows ==
  /\ pc = "ready"
  /\ Return("rows", rows(Env(stack)))

Distribute ==
  /\ pc = "ready"
  /\ Return("distribute", distribute(Env(stack)))

Partition ==
  /\ pc = "ready"
  /\ Return("partition", partition(Env(stack)))

InitLoops == Start(LoopStacks)

NextLoops ==
  \/ Reduce
  \/ Fold
  \/ Scan
  \/ Each
  \/ Rows
  \/ Distribute
  \/ Table
  \/ Cross
  \/ Partition
  \/ Group
  \/ RepeatBegin
  \/ RepeatCall
  \/ RepeatEnd

SpecLoops == InitLoops /\ [][NextLoops]_vars

RowsShapes == {<<k>> : k \in 0..MaxLen} \cup {<<>>, <<2, 2>>}

Rows1Fns == {Fn("inc", FALSE, 0), Fn("inc", FALSE, 2), Fn("drop", FALSE, 0), Fn("solo", FALSE, 0)}

Rows2Fns == {Fn("lin", FALSE, 0), Fn("lin", FALSE, 2), Fn("pair", FALSE, 0), Fn("drop2", FALSE, 0)}

Rows3Fns == {Fn("sum3", FALSE, 0), Fn("sum3", FALSE, 2), Fn("vec3", FALSE, 0), Fn("drop3", FALSE, 0)}

RowsStacks ==
  {<<Marker, Iota("num", sx, 0), FnVal(f)>> : sx \in RowsShapes, f \in Rows1Fns}
    \cup {<<Marker, Iota("num", sy, 10), Iota("num", sx, 0), FnVal(f)>> :
             sx \in RowsShapes, sy \in RowsShapes, f \in Rows2Fns}
    \cup {<<Marker, Iota("num", sz, 20), Iota("num", sy, 10), Iota("num", sx, 0), FnVal(f)>> :
             sx \in RowsShapes, sy \in RowsShapes, sz \in RowsShapes, f \in Rows3Fns}

InitRows == Start(RowsStacks)

NextRows == Rows

SpecRows == InitRows /\ [][NextRows]_vars

FoldFns ==
  {Fn("lin", FALSE, k) : k \in 0..MaxLen}
    \cup {Fn("add", FALSE, 0), Fn("sub", TRUE, 0), Fn("cat", FALSE, 0), Fn("cat", FALSE, 2),
           Fn("inc", FALSE, 0), Fn("inc", FALSE, 1), Fn("zero", FALSE, 0), Fn("sum3", FALSE, 0)}

FoldShapes == {<<k>> : k \in 0..MaxLen} \cup {<<>>, <<0, 2>>, <<2, 2>>}

FoldInits == {Iota("num", sh, 10) : sh \in {<<>>, <<2>>, <<MaxLen>>}}

FoldStacks ==
  {<<Marker, Iota("num", sh, 0), init, FnVal(f)>> : sh \in FoldShapes, init \in FoldInits, f \in FoldFns}

InitFold == Start(FoldStacks)

NextFold == Fold \/ Reduce

SpecFold == InitFold /\ [][NextFold]_vars

MarkerVals == {0, 1, 2}

MarkerLists ==
  {Nums(d) : d \in SeqsUpTo(MarkerVals, MaxLen)}
    \cup {Nums(<<-1, 1>>), Nums(<<1, 1, 2, 2, 1>>), Nums(<<isize_MAX>>), Nums(<<0, isize_MAX>>),
           Arr("num", <<2>>, <<Num(1), Rat(1, 2)>>)}

PartitionFns ==
  {Fn("id", FALSE, 0), Fn("id", FALSE, 1), Fn("solo", FALSE, 0), Fn("zero", FALSE, 0),
   Fn("lin", FALSE, 0), Fn("cat", FALSE, 0), Fn("cat", FALSE, 1), Fn("sum3", FALSE, 0)}

PartitionValues ==
  {Iota("num", <<k>>, 0) : k \in 0..MaxLen} \cup {Iota("num", <<k, 2>>, 0) : k \in 1..MaxLen}
    \cup {Iota("num", <<5>>, 0)}

PartitionStacks ==
  {<<Marker, xs, ms, FnVal(f)>> : xs \in PartitionValues, ms \in MarkerLists, f \in PartitionFns}

InitPartition == Start(PartitionStacks)

NextPartition == Partition

SpecPartition == InitPartition /\ [][NextPartition]_vars

\* Inputs of scan whose functions signal a break, some of them leaving a
\* second value on the stack.
ScanBreakFns ==
  {Fn("lin", FALSE, k) : k \in 0..MaxLen} \cup {Fn("swap", FALSE, k) : k \in 0..MaxLen}
    \cup {Fn("cat", FALSE, 0), Fn("cat", FALSE, 2)}

ScanBreakShapes == {<<k>> : k \in 0..(MaxLen + 1)} \cup {<<>>, <<0, 2>>, <<2, 2>>, <<MaxLen, 2>>}

InitScanBreak ==
  Start({<<Marker, Iota(ty, sh, 0), FnVal(f)>> :
           ty \in {"num", "byte"}, sh \in ScanBreakShapes, f \in ScanBreakFns})

SpecScanBreak == InitScanBreak /\ [][NextScan]_vars

(* ================================================================ claims *)
Ran(name) == pc \in {"ok", "err"} /\ opname = name

InF == FnOf(input[Len(input)])

InXs == input[Len(input) - 1]

SameValue(v, w) == v.shape = w.shape /\ v.data = w.data

\* The accumulators of the left fold of f over rows: the first row, then f
\* called with the accumulator on top and the next row beneath it.
FoldAccs(f, rws) ==
  LET acc[i \in 1..Len(rws)] ==
        IF i = 1 THEN rws[1] ELSE Apply(f, <<acc[i - 1], rws[i]>>).out[1]
  IN  acc

GenericReduceCase ==
  /\ Ran("reduce")
  /\ signature(InF).args = 2
  /\ InF.name \notin ReducePrims
  /\ row_count(InXs) >= 1
  /\ (InF.brk = 0 \/ InF.brk >= row_count(InXs))

\* C1: generic reduce with an arity-2 function over an array of at least one
\* row, no call signalling break, pushes exactly the left fold of the rows in
\* index order: acc starts as row 0, each call gets row i pushed first and
\* acc on top, its result is the new acc; f is called row_count - 1 times and
\* exactly one value, the final acc, is pushed.
C1_ReduceIsLeftFold ==
  GenericReduceCase =>
    LET rws == into_rows(InXs)
        accs == FoldAccs(InF, rws)
        n == Len(rws)
    IN  /\ pc = "ok"
        /\ stack = <<Marker, accs[n]>>
        /\ Len(log) = n - 1
        /\ \A i \in 1..(n - 1) : log[i] = [fn |-> InF, args |-> <<accs[i], rws[i + 1]>>]

C1_Witness ==
  /\ GenericReduceCase
  /\ InF.name = "lin"
  /\ row_count(InXs) = 3
  /\ Len(log) = 2
  /\ pc = "ok"

SubCase(flipped) ==
  /\ Ran("reduce")
  /\ InXs = Nums(<<10, 1, 2>>)
  /\ InF = Fn("sub", flipped, 0)

\* C2 as stated: the fast path of reduce over [10 1 2] with subtraction
\* gives 7 for the non-flipped primitive and 11 for the flipped one.
C2_AsStated ==
  /\ SubCase(FALSE) => (pc = "ok" /\ stack = <<Marker, Scalar("num", Num(7))>>)
  /\ SubCase(TRUE) => (pc = "ok" /\ stack = <<Marker, Scalar("num", Num(11))>>)

\* C2 (amended): the fast path of reduce over [10 1 2] with subtraction
\* computes x2 - (x1 - x0) = 11 for the non-flipped primitive and
\* (x0 - x1) - x2 = 7 for the flipped one.
C2_SubtractionOrder ==
  /\ SubCase(FALSE) => (pc = "ok" /\ stack = <<Marker, Scalar("num", Num(11))>>)
  /\ SubCase(TRUE) => (pc = "ok" /\ stack = <<Marker, Scalar("num", Num(7))>>)

C2_Witness == SubCase(FALSE) /\ log = <<>> /\ Len(stack) = 2

FastReduceCase ==
  /\ Ran("reduce")
  /\ InF.name \in ReducePrims
  /\ rank(InXs) = 1

GenericOutcome == generic_fold(InF, InXs, <<>>, Env(<<Marker>>))

SameOutcome(e) ==
  /\ (pc = "err") = (e.err # "")
  /\ pc = "ok" => /\ Len(stack) = Len(e.stack)
                   /\ SameValue(stack[Len(stack)], Top(e))

ReduceIdentity(p) ==
  CASE p \in {"add", "sub"} -> Num(0)
    [] p \in {"mul", "div"} -> Num(1)
    [] p = "max" -> NEG_INFINITY
    [] p = "min" -> INFINITY

\* C3 as stated: for every recognized primitive and every rank-1 numeric
\* array, length 0 included, the fast path of reduce has the outcome of the
\* generic path.
C3_AsStated == FastReduceCase => SameOutcome(GenericOutcome)

\* C3 (amended): for every recognized primitive, flipped or not, and every
\* rank-1 numeric array of length >= 1 the fast path returns the value the
\* generic path returns; at length 0 the fast path returns the primitive's
\* identity where the generic path returns the empty-array error.
C3_FastMatchesGeneric ==
  FastReduceCase =>
    IF row_count(InXs) >= 1
    THEN pc = "ok" /\ GenericOutcome.err = "" /\ SameOutcome(GenericOutcome)
    ELSE /\ pc = "ok"
         /\ stack = <<Marker, Scalar("num", ReduceIdentity(InF.name))>>
         /\ GenericOutcome.err = "Cannot reduce empty array"

C3_Witness ==
  /\ FastReduceCase
  /\ InF = Fn("div", FALSE, 0)
  /\ InXs.ty = "byte"
  /\ row_count(InXs) = 3
  /\ InXs.data[1] # InXs.data[2]
  /\ pc = "ok"

\* The array of the first i rows of xs.
FirstRows(xs, i) == Arr(xs.ty, <<i>> \o Tail(xs.shape), Take(xs.data, i * row_len(xs)))

ReduceOf(f, xs) == reduce(Env(<<Marker, xs, FnVal(f)>>))

ScanCase ==
  /\ Ran("scan")
  /\ pc = "ok"
  /\ signature(InF).args = 2
  /\ rank(InXs) >= 1
  /\ row_count(InXs) >= 1
  /\ (InF.brk = 0 \/ InF.brk >= row_count(InXs))

InArgs(n) == [i \in 1..n |-> input[Len(input) - i]]

\* The position of the call that signals break, or 0 when none of n calls does.
BreakAt(f, n) == IF f.brk \in 1..n THEN f.brk ELSE 0

Each1Case ==
  /\ Ran("each")
  /\ InF.name \in {"inc", "id"}

\* C5: each with a 1-argument, 1-output function producing scalar cells
\* returns an array of the shape of xs, also when call k signals break: the
\* positions up to the breaking one hold f's results, the later positions
\* hold the values of xs, and f is not called after the break.
C5_EachKeepsShape ==
  Each1Case =>
    LET xs == InXs
        n == Len(xs.data)
        k == IF BreakAt(InF, n) = 0 THEN n ELSE BreakAt(InF, n)
        res == stack[Len(stack)]
    IN  /\ pc = "ok"
        /\ Len(stack) = 2
        /\ stack[1] = Marker
        /\ res.shape = xs.shape
        /\ Len(res.data) = n
        /\ Len(log) = k
        /\ \A i \in 1..n :
             res.data[i] = IF i <= k THEN Apply(InF, <<Scalar(xs.ty, xs.data[i])>>).out[1].data[1]
                           ELSE xs.data[i]
        /\ \A i \in 1..k : log[i].args = <<Scalar(xs.ty, xs.data[i])>>

C5_Witness ==
  /\ Each1Case
  /\ InF = Fn("inc", FALSE, 2)
  /\ InXs.shape = <<2, 2>>
  /\ Len(log) = 2
  /\ pc = "ok"

EachNCase ==
  /\ Ran("each")
  /\ InF \in {Fn("sum3", FALSE, 0), Fn("vec3", FALSE, 0)}
  /\ ShapesAllMatch(InArgs(3))

CellShape(f) == IF f.name = "vec3" THEN <<3>> ELSE <<>>

\* C6: each with a function of 3 arguments and 1 output over arrays that all
\* have the shape s returns an array of shape s followed by the shape of the
\* produced cell, for s of rank 0, rank 1 and rank >= 2.
C6_EachNShape ==
  EachNCase =>
    /\ pc = "ok"
    /\ flat_len(InXs) > 0 => stack[Len(stack)].shape = InXs.shape \o CellShape(InF)

InYs == input[Len(input) - 2]

\* The items an outer combination of xs and ys by f consists of: f called
\* with the xs item on top and the ys item beneath it, xs slowest.
OuterItems(f, xs, ys) ==
  LET pairs == AllPairs(xs, ys)
  IN  [i \in 1..Len(pairs) |-> Apply(f, pairs[i])]

ItemsOk(items) ==
  \A i \in 1..Len(items) : items[i].err = "" /\ items[i].out[1].shape = items[1].out[1].shape

\* The result is the items in order under the leading shape prefix.
IsOuter(res, items, prefix) ==
  /\ res.shape = prefix \o (IF items = <<>> THEN <<>> ELSE items[1].out[1].shape)
  /\ res.data = Concat([i \in 1..Len(items) |-> items[i].out[1].data])

OuterCase(name) ==
  /\ Ran(name)
  /\ InF.brk = 0
  /\ ItemsOk(OuterItems(InF, IF name = "table" THEN into_flat_values(InXs) ELSE into_rows(InXs),
                         IF name = "table" THEN into_flat_values(InYs) ELSE into_rows(InYs)))

OuterHolds(name) ==
  LET xs == IF name = "table" THEN into_flat_values(InXs) ELSE into_rows(InXs)
      ys == IF name = "table" THEN into_flat_values(InYs) ELSE into_rows(InYs)
      prefix == IF name = "table" THEN InXs.shape \o InYs.shape
                ELSE <<row_count(InXs), row_count(InYs)>>
  IN  /\ pc = "ok"
      /\ Len(stack) = 2
      /\ Len(xs) * Len(ys) > 0 => IsOuter(stack[2], OuterItems(InF, xs, ys), prefix)
      /\ Len(xs) * Len(ys) = 0 => Take(stack[2].shape, Len(prefix)) = prefix /\ stack[2].data = <<>>

\* C7: table has result shape shape(xs) ++ shape(ys) ++ shape(cell), cross
\* [row_count(xs), row_count(ys)] ++ shape(cell); the item at (i, j) is f
\* applied with item i of xs on top and item j of ys beneath it, xs slowest;
\* table(+, [1 2], [10 20 30]) has shape [2 3] and data [11 21 31 12 22 32].
C7_OuterProduct ==
  /\ OuterCase("table") => OuterHolds("table")
  /\ OuterCase("cross") => OuterHolds("cross")
  /\ (Ran("table") /\ InF = Fn("add", FALSE, 0) /\ InXs = Nums(<<1, 2>>)
         /\ InYs = Nums(<<10, 20, 30>>))
       => stack[2] = Arr("num", <<2, 3>>, [i \in 1..6 |-> Num(<<11, 21, 31, 12, 22, 32>>[i])])

\* The part of C7 the code satisfies: every function but a flipped join or
\* couple on table's fast path.
C7_ExceptFlippedJoin ==
  (Ran("table") /\ InF.name \in {"join", "couple"} /\ InF.flipped) \/ C7_OuterProduct

FastTableCase ==
  /\ Ran("table")
  /\ InF.name \in Prims

\* C8: for every primitive the table fast path recognizes, flipped or not,
\* and every pair of numeric arrays, the fast path's result (shape and data)
\* is the result generic_table produces by calling that function once per
\* element pair with the ys element pushed first and the xs element on top.
C8_FastTableMatchesGeneric ==
  FastTableCase =>
    LET g == generic_table(InF, InXs, InYs, Env(<<Marker>>))
    IN  /\ pc = "ok"
        /\ g.err = ""
        /\ SameValue(stack[Len(stack)], Top(g))

\* The part of C8 the code satisfies: non-empty operands, and no flipped
\* join or couple.
C8_ExceptFlippedJoin ==
  (FastTableCase /\ ~(InF.name \in {"join", "couple"} /\ InF.flipped)
     /\ Len(InXs.data) * Len(InYs.data) > 0)
    => LET g == generic_table(InF, InXs, InYs, Env(<<Marker>>))
       IN  pc = "ok" /\ g.err = "" /\ SameValue(stack[Len(stack)], Top(g))

\* The buckets of a grouping, bucket 0 first: bucket g holds the rows whose
\* index is g; an empty index list has no bucket.
Buckets(xs, ints) ==
  IF ints = <<>> THEN <<>>
  ELSE [g \in 1..((IF SeqMax(ints) > 0 THEN SeqMax(ints) ELSE 0) + 1) |->
          from_row_arrays_infallible(RowsWithIndex(xs, ints, g - 1, 1))]

GroupIdCase ==
  /\ Ran("group")
  /\ pc = "ok"
  /\ InF = Fn("id", FALSE, 0)

\* C9 as stated: group followed by collapse with the identity function
\* produces the array whose rows are the groups in the reverse of the bucket
\* order, bucket M first and bucket 0 last.
C9_AsStated ==
  GroupIdCase =>
    stack = <<Marker, from_row_values(Reverse(Buckets(InYs, as_indices(InXs).ints))).val>>

\* C9 (amended): group followed by collapse with the identity function
\* produces the array whose rows are the groups of the rows with index >= 0
\* in bucket order, bucket 0 first and bucket M last.
C9_GroupIdentityInBucketOrder ==
  GroupIdCase =>
    /\ stack = <<Marker, from_row_values(Buckets(InYs, as_indices(InXs).ints)).val>>
    /\ Len(log) = Len(Buckets(InYs, as_indices(InXs).ints))
    /\ \A i \in 1..Len(log) :
         log[i].args = <<Reverse(Buckets(InYs, as_indices(InXs).ints))[i]>>

C9_Witness ==
  /\ GroupIdCase
  /\ as_indices(InXs).ints = <<1, 0>>
  /\ InYs = Iota("num", <<2>>, 0)
  /\ stack[2] = Arr("num", <<2, 1>>, <<Num(2), Num(1)>>)

\* The repetition count on the stack, when it is an integer.
InN == InXs.data[1].n

IntegerRepeat ==
  /\ opname = "repeat"
  /\ rank(InXs) = 0
  /\ InXs.data[1].d = 1

\* The function repeat calls: f for a count >= 0, its inverse below.
Repeated == IF InN < 0 THEN invert(InF).fn ELSE InF

\* x after k calls of the 1-argument function f.
RECURSIVE Iterate(_, _, _)
Iterate(f, x, k) == IF k = 0 THEN x ELSE Apply(f, <<Iterate(f, x, k - 1)>>).out[1]

\* C10: repeat(f, 0) calls f zero times and only pops f and n; repeat(f, n)
\* with an integer n > 0 and no break calls f exactly n times in sequence;
\* repeat(f, -n) calls invert(f) exactly n times and never f itself; a break
\* signalled by call k ends the loop after exactly k calls.
C10_RepeatCounts ==
  IntegerRepeat =>
    LET k == IF BreakAt(InF, Abs(InN)) = 0 THEN Abs(InN) ELSE BreakAt(InF, Abs(InN))
    IN  /\ Len(log) <= k
        /\ \A i \in 1..Len(log) : log[i].fn = Repeated
        /\ pc = "ok" => Len(log) = k
        /\ (pc = "ok" /\ InN = 0) => stack = Take(input, Len(input) - 2)
        /\ (pc = "ok" /\ InF.name = "dbl") =>
             stack = <<Marker, Iterate(Repeated, input[2], k)>>
        /\ (pc = "err" /\ InF.name = "dbl") => FALSE

C10_Witness ==
  /\ IntegerRepeat
  /\ InN = -MaxReps
  /\ InF = Fn("dbl", FALSE, 2)
  /\ pc = "ok"
  /\ Len(log) = 2
  /\ log[2].fn.inv

\* The function and the array level works on, beneath the rank-list function.
InLevelF == FnOf(input[Len(input) - 1])

InLevelXs == input[Len(input) - 2]

\* The state each and rows start from: the stack without the rank-list
\* function, after the one call that produced the rank list.
BelowRanks ==
  [Env(Take(input, Len(input) - 1)) EXCEPT !.log = <<[fn |-> InF, args |-> <<>>]>>]

\* level ran with the one-entry rank list r and a function each/rows accept.
LevelCase(r) ==
  /\ Ran("level")
  /\ InF = Fn(r, FALSE, 0)
  /\ signature(InLevelF).outputs <= 1

SameEffect(e) ==
  /\ (pc = "ok") = (e.err = "")
  /\ pc = "ok" => stack = e.stack

\* C11: for every array xs (rank 0 included) and every function each/rows
\* accept, level with the rank list [0] has the same effect on the stack as
\* each(f, xs), with [-1] the same effect as rows(f, xs), and with
\* [infinity] the same effect as pushing xs and calling f exactly once.
C11_LevelIsEachRowsCall ==
  /\ LevelCase("rank_0") => SameEffect(each(BelowRanks))
  /\ LevelCase("rank_m1") => SameEffect(rows(BelowRanks))
  /\ LevelCase("rank_inf") =>
       /\ SameEffect(call(push(pop(pop(BelowRanks)), InLevelXs), InLevelF))
       /\ pc = "ok" => Len(log) = 2

\* The number of arrays the combinator pops beneath its function.
ArrayArgs ==
  CASE opname \in {"reduce", "scan"} -> 1
    [] opname \in {"each", "rows"} -> signature(InF).args
    [] OTHER -> 2

\* The stack beneath the function and the array arguments.
Beneath == Take(input, Len(input) - 1 - ArrayArgs)

LoopNames ==
  {"reduce", "fold", "scan", "each", "rows", "distribute", "table", "cross", "partition", "group"}

\* C12: when one of the ten combinators returns Ok, the stack is what was
\* beneath its function and array arguments plus at most one new value, and
\* no new value when the function has 0 outputs.
C12_StackBalanced ==
  (pc = "ok" /\ opname \in LoopNames) =>
    /\ Len(stack) >= Len(Beneath)
    /\ Take(stack, Len(Beneath)) = Beneath
    /\ Len(stack) <= Len(Beneath) + 1
    /\ signature(InF).outputs = 0 => stack = Beneath

\* The errors a combinator raises itself before it calls its function.
OwnErrors ==
  {"Cannot reduce a function that takes this many arguments",
   "Cannot group with a function that takes this many arguments",
   "Cannot partition with a function that takes this many arguments",
   "Each's function must return 0 or 1 values", "Rows's function must return 0 or 1 values",
   "Shapes are not compatible", "The shapes in each of 3 or more arrays must all match",
   "Cannot rows arrays with different number of rows",
   "Cannot group array with indices of this length",
   "Cannot partition array with markers of this length",
   "Cannot reduce empty array", "Cannot reduce empty group result",
   "Cannot reduce empty partition result", "Cannot scan rank 0 array",
   "Repetitions must be a single integer or infinity"}

\* The errors a combinator raises when its function signals a break.
BreakErrors ==
  {"break is not allowed in multi-argument each", "break is not allowed multi-argument in each",
   "break is not allowed in multi-argument rows", "break is not allowed in distribute",
   "break is not allowed in table", "break is not allowed in cross",
   "break is not allowed in group", "break is not allowed in partition"}

\* What the last call in the log returned.
LastOut == Apply(log[Len(log)].fn, log[Len(log)].args).out

\* The operands the combinator pushes for one call of f.
Pushed ==
  CASE opname \in {"distribute", "table", "cross"} -> 2
    [] opname \in {"group", "partition"} -> 1
    [] OTHER -> signature(InF).args

\* The height of the stack beneath what the last call returned: what was
\* beneath the arguments and the operands the call did not consume.
Kept == Len(Beneath) + Pushed - signature(InF).args

\* C13: a combinator that returns an error of its own has pushed no result.
\* An arity, shape, row-count, empty-input or repetition-count error comes
\* before any call of f, with nothing pushed on what is left of the input
\* stack; a break-disallowed error comes right after the call that signalled
\* the break, which is the last call, and the stack holds what was beneath
\* the arguments and the operands of that call as the call left them, with
\* what the call returned on top and no assembled result.
C13_OwnErrorsPushNothing ==
  /\ (pc = "err" /\ errmsg \in OwnErrors) =>
        /\ log = <<>>
        /\ IsPrefix(stack, Take(input, Len(input) - 1))
  /\ (pc = "err" /\ errmsg \in BreakErrors) =>
        /\ log # <<>>
        /\ log[Len(log)].fn.brk = Len(log)
        /\ Len(stack) = Kept + Len(LastOut)
        /\ Drop(stack, Kept) = LastOut
        /\ \A i \in 1..Len(Beneath) : i <= Kept => stack[i] = Beneath[i]

\* A break-disallowed error at the second call of f.
C13_Witness == pc = "err" /\ errmsg \in BreakErrors /\ Len(log) = 2

\* C14: rows with a function of 2 or more arguments and arrays whose row
\* counts are not all equal returns an error and never calls f.
C14_RowsRowCountsMustMatch ==
  (/\ opname = "rows"
   /\ pc # "ready"
   /\ signature(InF).args >= 2
   /\ \E j \in 2..signature(InF).args : row_count(input[Len(input) - j]) # row_count(input[Len(input) - 1]))
    => (pc = "err" /\ log = <<>>)

InFoldInit == input[Len(input) - 1]

InFoldXs == input[Len(input) - 2]

\* C15: fold pops the function, the initial accumulator and xs; when xs has
\* no rows it returns Ok with the initial accumulator pushed unchanged and
\* without calling f, for a function of 0, 1 or 2 arguments.
C15_FoldEmptyReturnsInit ==
  (/\ opname = "fold"
   /\ pc # "ready"
   /\ row_count(InFoldXs) = 0
   /\ signature(InF).args \in {0, 1, 2})
    => /\ pc = "ok"
       /\ log = <<>>
       /\ stack = Append(Take(input, Len(input) - 3), InFoldInit)

\* The last row of the run of equal markers that starts at row s.
RunEnd(markers, s) ==
  CHOOSE e \in s..Len(markers) :
    /\ \A k \in s..e : markers[k] = markers[s]
    /\ e = Len(markers) \/ markers[e + 1] # markers[s]

\* The runs of rows with the same marker > 0, in the order of the rows: a
\* run starts at a row whose marker is > 0 and differs from the marker of
\* the row before it.
RECURSIVE MarkerRuns(_, _)
MarkerRuns(markers, r) ==
  IF r > Len(markers) THEN <<>>
  ELSE IF markers[r] > 0 /\ (r = 1 \/ markers[r - 1] # markers[r])
  THEN <<[from |-> r, to |-> RunEnd(markers, r)]>> \o MarkerRuns(markers, r + 1)
  ELSE MarkerRuns(markers, r + 1)

\* The rows of a run as one array.
RunArray(xs, run) ==
  from_row_arrays_infallible([k \in 1..(run.to - run.from + 1) |-> row(xs, run.from + k - 1)])

InMarkers == as_indices(InXs).ints

\* partition ran with a 1-argument function on a list of integer markers.
PartitionCase ==
  /\ opname = "partition"
  /\ pc # "ready"
  /\ signature(InF).args = 1
  /\ as_indices(InXs).err = ""

\* C16: with as many markers as rows, the groups partition hands to its
\* function are the runs of rows with equal marker > 0, every such row in
\* exactly one group and in row order, no row with a marker <= 0 in any
\* group, the last run first; with any other number of markers partition
\* returns an error without calling the function.
C16_PartitionGroups ==
  PartitionCase =>
    IF Len(InMarkers) = row_count(InYs)
    THEN /\ pc # "panic"
         /\ (pc = "ok" \/ InF.brk = 0) =>
               /\ Len(log) = Len(MarkerRuns(InMarkers, 1))
               /\ \A i \in 1..Len(log) :
                    log[i].args = <<RunArray(InYs, Reverse(MarkerRuns(InMarkers, 1))[i])>>
    ELSE /\ pc = "err"
         /\ errmsg = "Cannot partition array with markers of this length"
         /\ log = <<>>

InIndices == as_indices(InXs).ints

\* max(M, 0) + 1 with M the largest index, -1 when there is none.
BucketCount ==
  IF InIndices # <<>> /\ SeqMax(InIndices) > 0 THEN SeqMax(InIndices) + 1 ELSE 1

\* group ran with a 1-argument function that signals no break, on as many
\* integer indices as rows.
GroupBucketsCase ==
  /\ opname = "group"
  /\ pc # "ready"
  /\ signature(InF).args = 1
  /\ InF.brk = 0
  /\ as_indices(InXs).err = ""
  /\ Len(InIndices) = row_count(InYs)

\* C17: with as many indices as rows, the groups group hands to its function
\* are max(M, 0) + 1 buckets, M = -1 for an empty index list; bucket g holds
\* the rows r with indices[r] = g in increasing r, and bucket M comes first.
C17_GroupBuckets ==
  GroupBucketsCase =>
    /\ Len(log) = BucketCount
    /\ \A i \in 1..Len(log) :
         log[i].args =
           <<from_row_arrays_infallible(RowsWithIndex(InYs, InIndices, BucketCount - i, 1))>>

\* Call i of the log returned and signalled a break.
SignalledBreak(i) ==
  log[i].fn.brk = i /\ Apply(log[i].fn, log[i].args).err = ""

\* C18: in each with a function of 2 or more arguments, with an output or
\* without, a break signalled by a call makes each return the error "break
\* is not allowed in multi-argument each", and that call is the last call.
C18_EachBreakIsError ==
  (/\ opname = "each"
   /\ pc # "ready"
   /\ signature(InF).args >= 2
   /\ signature(InF).outputs <= 1)
    => \A i \in 1..Len(log) :
         SignalledBreak(i) =>
           /\ pc = "err"
           /\ errmsg = "break is not allowed in multi-argument each"
           /\ i = Len(log)

\* reduce or fold ran its generic loop with a function of 2 arguments.
GenericFoldCase ==
  /\ opname \in {"reduce", "fold"}
  /\ pc # "ready"
  /\ signature(InF).args = 2
  /\ opname = "reduce" => InF.name \notin ReducePrims

\* The rows the generic loop goes through, the first call taking the first
\* of them: all rows of xs in fold, the rows after the first in reduce.
FoldedRows ==
  IF opname = "fold" THEN into_rows(InFoldXs) ELSE Tail(into_rows(InXs))

\* The stack beneath the operands of reduce or fold.
FoldBeneath == Take(input, Len(input) - (IF opname = "fold" THEN 3 ELSE 2))

\* The array made of the result of call k and the rows after row k.
BrokenFold(k) ==
  from_row_values(<<Apply(log[k].fn, log[k].args).out[1]>> \o Drop(FoldedRows, k))

\* C19: in generic reduce and fold with a function of 2 arguments, when the
\* call for a row signals break that call is the last call, and the result
\* popped from it followed by the rows not yet visited, in their order, is
\* reassembled into one array, which is pushed as the single result.
C19_FoldBreakKeepsRest ==
  GenericFoldCase =>
    \A k \in 1..Len(log) :
      SignalledBreak(k) =>
        /\ k = Len(log)
        /\ (pc = "ok") = (BrokenFold(k).err = "")
        /\ pc = "ok" => stack = Append(FoldBeneath, BrokenFold(k).val)

\* A break at the second call of fold with a row left unvisited.
C19_Witness ==
  /\ GenericFoldCase
  /\ opname = "fold"
  /\ pc = "ok"
  /\ Len(log) = 2
  /\ SignalledBreak(2)
  /\ Len(FoldedRows) = 3
  /\ row_count(stack[Len(stack)]) = 2

\* What call j returned.
OutOf(j) == Apply(log[j].fn, log[j].args).out

\* The values the first n calls left on the stack beneath the results that
\* were popped from them.
RECURSIVE LeftBehind(_)
LeftBehind(n) ==
  IF n = 0 THEN <<>> ELSE LeftBehind(n - 1) \o Take(OutOf(n), Len(OutOf(n)) - 1)

\* The first row of xs followed by the results popped from the first k calls.
ScannedUpTo(k) ==
  from_row_values(<<row(InXs, 1)>> \o [j \in 1..k |-> OutOf(j)[Len(OutOf(j))]])

\* scan ran its generic loop with a function of 2 arguments.
GenericScanCase ==
  /\ opname = "scan"
  /\ pc # "ready"
  /\ signature(InF).args = 2
  /\ InF.name \notin ReducePrims

\* C20: in generic scan, when the call for row k (the k-th call) signals
\* break, that call is the last call, the result is the array of the k + 1
\* accumulators up to and including the result of that call, and it is
\* pushed on the stack as it was before the operands of that call were
\* pushed: what the breaking call left beneath its result is discarded.
C20_ScanBreakTruncates ==
  GenericScanCase =>
    \A k \in 1..Len(log) :
      SignalledBreak(k) =>
        /\ k = Len(log)
        /\ (pc = "ok") = (ScannedUpTo(k).err = "")
        /\ pc = "ok" =>
             /\ stack = Append(<<Marker>> \o LeftBehind(k - 1), ScannedUpTo(k).val)
             /\ row_count(stack[Len(stack)]) = k + 1

\* A break at the second call of a function that leaves a second value.
C20_Witness ==
  /\ GenericScanCase
  /\ pc = "ok"
  /\ InF.name = "swap"
  /\ Len(log) = 2
  /\ SignalledBreak(2)
  /\ row_count(InXs) > 3
  /\ Len(stack) = 3

\* reduce took its fast path on an array of rank >= 2.
FastReduceRowsCase ==
  /\ Ran("reduce")
  /\ InF.name \in ReducePrims
  /\ rank(InXs) >= 2

\* Column j of xs: element j of every row, in row order.
Column(xs, j) ==
  Arr("num", <<row_count(xs)>>, [i \in 1..row_count(xs) |-> xs.data[(i - 1) * row_len(xs) + j]])

\* The left fold of the elements of column j by f, seeded from row 0: what
\* the generic loop gives for the column.
ColumnFold(f, xs, j) == Top(generic_fold(f, Column(xs, j), <<>>, Env(<<>>))).data[1]

\* C21: for a numeric array of rank >= 2 the fast path of reduce returns an
\* array of shape shape[1..] with product(shape[1..]) elements; element j is
\* the left fold over the rows, in increasing row index and seeded from row
\* 0, of element j of each row, and with no rows it is the identity of the
\* primitive.
C21_FastReduceColumns ==
  FastReduceRowsCase =>
    /\ pc = "ok"
    /\ Len(stack) = 2
    /\ stack[2].shape = Tail(InXs.shape)
    /\ Len(stack[2].data) = Product(Tail(InXs.shape))
    /\ \A j \in 1..Len(stack[2].data) :
         stack[2].data[j] =
           (IF row_count(InXs) = 0 THEN ReduceIdentity(InF.name) ELSE ColumnFold(InF, InXs, j))

\* Three rows reduced by subtraction, where the order of the fold shows.
C21_Witness ==
  /\ FastReduceRowsCase
  /\ InF.name = "sub"
  /\ row_count(InXs) = 3
  /\ pc = "ok"
  /\ stack[2].shape = <<1>>
  /\ InXs.data[1] # InXs.data[3]

\* The number of rows of all the arrays of a list together.
RECURSIVE RowTotal(_)
RowTotal(arrays) ==
  IF arrays = <<>> THEN 0 ELSE row_count(Head(arrays)) + RowTotal(Tail(arrays))

\* partition ran on a list of integer markers with one marker per row.
WellSizedPartition ==
  /\ opname = "partition"
  /\ pc # "ready"
  /\ as_indices(InXs).err = ""
  /\ Len(InMarkers) = row_count(InYs)

\* C27: on a markers list with one integer marker per row, whatever the
\* markers are, partition_groups returns Ok: a row is only ever appended to
\* an existing group, and the returned groups hold together as many rows as
\* there are markers > 0.
C27_PartitionGroupsTotal ==
  WellSizedPartition =>
    /\ pc # "panic"
    /\ partition_groups(InYs, InMarkers).err = ""
    /\ RowTotal(partition_groups(InYs, InMarkers).groups)
         = Cardinality({k \in 1..Len(InMarkers) : InMarkers[k] > 0})

\* group ran with a 2-argument function on as many integer indices as rows.
Collapse2Case ==
  /\ opname = "group"
  /\ pc # "ready"
  /\ signature(InF).args = 2
  /\ as_indices(InXs).err = ""
  /\ Len(InIndices) = row_count(InYs)

\* The groups in the order collapse_groups visits them: the last bucket first.
Visited == Reverse(Buckets(InYs, InIndices))

\* acc when group i + 1 is visited: the first group visited, then the
\* result of the call made for each further group.
RECURSIVE AccAt(_)
AccAt(i) ==
  IF i = 1 THEN Visited[1] ELSE Apply(InF, <<Visited[i], AccAt(i - 1)>>).out[1]

\* The calls made are the first calls of the reduction: call i gets acc
\* pushed first and group i + 1 on top.
CollapseCalls ==
  /\ Len(log) < Len(Visited)
  /\ \A i \in 1..Len(log) : log[i].args = <<Visited[i + 1], AccAt(i)>>

\* C25: collapse_groups with a 2-argument function visits the groups from
\* the last bucket to bucket 0: acc starts as the last bucket, each further
\* group is one call with acc pushed first and the group on top, whose
\* popped result is the next acc; no group at all is an error; a call that
\* signals break is the last call and its output is left as the result.
C25_CollapseReducesFromLastBucket ==
  Collapse2Case =>
    IF Visited = <<>>
    THEN pc = "err" /\ errmsg = "Cannot reduce empty group result" /\ log = <<>>
    ELSE /\ CollapseCalls
         /\ pc = "ok" =>
              IF InF.brk \in 1..(Len(Visited) - 1)
              THEN /\ Len(log) = InF.brk
                   /\ stack = <<Marker>> \o Apply(InF, log[Len(log)].args).out
              ELSE /\ Len(log) = Len(Visited) - 1
                   /\ stack = <<Marker, AccAt(Len(Visited))>>
         /\ pc # "ok" =>
              /\ log # <<>>
              /\ errmsg = Apply(InF, log[Len(log)].args).err

\* The buckets [1], [2], [3] joined without a break: the last bucket and
\* the one before it first, bucket 0 with their result.
C25_Witness ==
  /\ Collapse2Case
  /\ InF = Fn("cat", FALSE, 0)
  /\ InIndices = <<0, 1, 2>>
  /\ InYs = Iota("num", <<3>>, 0)
  /\ pc = "ok"
  /\ Len(log) = 2
  /\ log[1].args = <<Nums(<<2>>), Nums(<<3>>)>>
  /\ log[2].args = <<Nums(<<1>>), Nums(<<2, 3>>)>>
  /\ stack = <<Marker, Nums(<<1, 2, 3>>)>>

\* The repetition count on the stack is +infinity.
InfiniteRepeat == rank(InXs) = 0 /\ InXs.data[1] = INFINITY

\* The repetition count on the stack is a finite integer.
FiniteRepeat == rank(InXs) = 0 /\ InXs.data[1].d = 1

\* Left to itself f stops the loop within the calls observed: some call
\* signals break, or f takes more from the stack than it gives back and
\* runs out of operands.
WillStop ==
  \/ InF.brk \in 1..MaxCalls
  \/ signature(InF).args > signature(InF).outputs

RepeatDone == pc \in {"ok", "err"}

\* An Ok return of the unbounded loop: the last call, and no call before
\* it, signalled break.
ReturnedAtFirstBreak ==
  /\ log # <<>>
  /\ SignalledBreak(Len(log))
  /\ \A i \in 1..(Len(log) - 1) : ~SignalledBreak(i)

\* C22: repeat with n = +infinity returns Ok only right after the first
\* call that signalled break, and returns whenever f comes to signal break
\* or to fail; repeat with a finite integer n always returns, after at most
\* |n| calls.
C22_RepeatTermination ==
  /\ []((InfiniteRepeat /\ pc = "ok") => ReturnedAtFirstBreak)
  /\ [](FiniteRepeat => Len(log) <= Abs(InN))
  /\ (pc = "ready" /\ InfiniteRepeat /\ WillStop) ~> RepeatDone
  /\ (pc = "ready" /\ FiniteRepeat) ~> RepeatDone

\* The unbounded loop left by a break at the last call observed.
C22_Witness ==
  /\ opname = "repeat"
  /\ InfiniteRepeat
  /\ InF = Fn("dbl", FALSE, MaxCalls)
  /\ pc = "ok"
  /\ Len(log) = MaxCalls

\* The rank list level reads: what the function on top of the stack pushes.
InRanks == as_number_list(Apply(FnOf(input[Len(input)]), <<>>).out[1]).list

\* Argument k of level (k >= 1): the first is on top, beneath f.
InLevelArg(k) == input[Len(input) - 1 - k]

\* level ran with a rank list of n entries.
LevelRan(n) ==
  /\ opname = "level"
  /\ pc # "ready"
  /\ Len(InRanks) = n

\* C28: level with a two-entry rank list on two arguments of rank 0 makes no
\* call of f and leaves the stack beneath the two functions as it was: the
\* same two values, the first argument on top of the second.
C28_LevelScalarsUntouched ==
  (LevelRan(2) /\ rank(InLevelArg(1)) = 0 /\ rank(InLevelArg(2)) = 0) =>
    /\ pc = "ok"
    /\ Len(log) = 1
    /\ stack = Take(input, Len(input) - 2)

\* The effective cell rank of an argument of rank r under the entry e.
CellRank(e, r) ==
  IF e.inf THEN r
  ELSE IF e.n < 0 THEN (IF r + e.n > 0 THEN r + e.n ELSE 0)
  ELSE (IF e.n < r THEN e.n ELSE r)

\* level ran on as many arguments as f takes, one per rank-list entry.
LevelArgsCase(n) ==
  /\ LevelRan(n)
  /\ signature(InLevelF).args = n

\* C23: in level, with one, two and three arguments alike, the descent depth
\* of argument k is rank_k - r_k for the effective cell rank r_k =
\* max(rank_k + e_k, 0) when e_k < 0, min(e_k, rank_k) when e_k >= 0, rank_k
\* when e_k is infinity, so that 0 <= n_k <= rank_k; every cell handed to f
\* for argument k has rank r_k.
C23_LevelDepths ==
  \A n \in 1..3 :
    LevelArgsCase(n) =>
      \A k \in 1..n :
        /\ level_depth(InRanks[k], rank(InLevelArg(k)))
             = rank(InLevelArg(k)) - CellRank(InRanks[k], rank(InLevelArg(k)))
        /\ level_depth(InRanks[k], rank(InLevelArg(k))) \in 0..rank(InLevelArg(k))
        /\ \A i \in 2..Len(log) :
             rank(log[i].args[k]) = CellRank(InRanks[k], rank(InLevelArg(k)))

\* Three arguments of rank 2, 1 and 2 under [1 -2 0]: cells of rank 1, 0, 0.
C23_Witness ==
  /\ LevelArgsCase(3)
  /\ InF.name = "rank_1_m2_0"
  /\ rank(InLevelArg(1)) = 2
  /\ rank(InLevelArg(2)) = 1
  /\ rank(InLevelArg(3)) = 2
  /\ Len(log) > 1
  /\ rank(log[2].args[1]) = 1
  /\ rank(log[2].args[2]) = 0
  /\ rank(log[2].args[3]) = 0

\* The descent depth of argument k: its rank less the cell rank.
Depth(k) == rank(InLevelArg(k)) - CellRank(InRanks[k], rank(InLevelArg(k)))

\* level ran on two arguments and took the recursive path.
DyadicCase ==
  /\ LevelArgsCase(2)
  /\ rank(InLevelArg(1)) > 0 \/ rank(InLevelArg(2)) > 0
  /\ InF.name \notin {"rank_0_0", "rank_m1_m1", "rank_inf_inf"}

\* The descent prefix of argument k: its first Depth(k) dimensions.
DescentPrefix(k) == Take(InLevelArg(k).shape, Depth(k))

LongerPrefix == IF Depth(1) >= Depth(2) THEN DescentPrefix(1) ELSE DescentPrefix(2)

\* Cell c (from 0, in row-major order) of v at depth n.
CellAt(v, n, c) ==
  Arr(v.ty, Drop(v.shape, n),
      SubSeq(v.data, c * Product(Drop(v.shape, n)) + 1, (c + 1) * Product(Drop(v.shape, n))))

\* The cell of argument k for index tuple t (from 0, in row-major order) of
\* the longer prefix: the tuple cut to the depth of the argument.
CellFor(k, t) ==
  CellAt(InLevelArg(k), Depth(k),
         t \div Product(SubSeq(LongerPrefix, Depth(k) + 1, Len(LongerPrefix))))

\* C24: two-argument level on the recursive path returns an error without
\* calling f when the first min(xn, yn) dimensions of xs and ys differ;
\* otherwise it calls f once per index tuple of the longer descent prefix,
\* with ys' cell pushed first and xs' cell on top, the argument of smaller
\* depth passed whole once its depth is 0, and the leading dimensions of
\* the result are that longer prefix.
C24_DyadicLevel ==
  DyadicCase =>
    IF ~PrefixesAgree(DescentPrefix(1), DescentPrefix(2))
    THEN pc = "err" /\ Len(log) = 1
    ELSE /\ Len(log) - 1 <= Product(LongerPrefix)
         /\ \A i \in 2..Len(log) : log[i].args = <<CellFor(1, i - 2), CellFor(2, i - 2)>>
         /\ pc = "ok" =>
              /\ Len(log) - 1 = Product(LongerPrefix)
              /\ Len(stack[Len(stack)].shape) >= Len(LongerPrefix)
              /\ Take(stack[Len(stack)].shape, Len(LongerPrefix)) = LongerPrefix

\* C26: in level with three arguments, at every depth of the recursion of
\* multi_level_recursive and for all shapes and depths that pass the prefix
\* check, every row index used on a descending argument is below the row
\* count of that argument: no row is taken that the argument does not have.
C26_MultiLevelRowsInRange ==
  LevelRan(3) => pc # "panic"

====
